---- MODULE Spec2Model ----
(***************************************************************************)
(* Office NFL pick'em pool: the outcome engine (_weekly_lunch,             *)
(* _season_leaderboard), the schedule importer (import_week_schedule) and  *)
(* the pick forms (picks_save, admin_picks_save), over the relational      *)
(* store of app/models.                                                    *)
(***************************************************************************)
EXTENDS Integers, Sequences, FiniteSets, TLC

VARIABLES
    users,      \* User table: user id -> display name (a sequence of character codes)
    games,      \* Game table: sequence of rows, the row id is the index
    weeks,      \* Week table: week id -> None (no row) or the instant first_kickoff_at
    picks,      \* Pick table: <<user id, game id>> -> chosen_team_id or None (no row)
    tbs,        \* TieBreaker table: <<user id, week id>> -> guess_points or None (no row)
    now,        \* the wall clock, datetime.now(timezone.utc)
    lunch,      \* last call of _weekly_lunch: [week, ret], week = None before any call
    board,      \* last call of _season_leaderboard: [week, ret, decided]
    imp,        \* last call of import_week_schedule: a record of the call
    save,       \* last pick form request: a record of the request
    served,     \* requests served so far: [imports, saves]
    cache,      \* live._CACHE: event id -> [at, lg], at = None for no entry
    negcache,   \* live._NEG_CACHE: event id -> expiry epoch, or None for no entry
    epoch,      \* time.time(), in seconds
    live,       \* the calls of bulk_fetch_live_events so far and the outbound fetches
    teams,      \* Team table: sequence of rows, the row id is the index
    ups,        \* the calls of upsert_teams_from_provider so far: a record of the last
    recon,      \* the reconciliations run so far: a record of the last, and its position
    espn,       \* the call of ESPNScoreboardProvider.get_week_schedule: events and result
    poll,       \* a run of the periodic job in flight: its position and the rows it loaded
    feed        \* the live source: what it answers for each event id, and whether for good

vars == <<users, games, weeks, picks, tbs, now, lunch, board, imp, save, served,
          cache, negcache, epoch, live, teams, ups, recon, espn, poll, feed>>

(***************************************************************************)
(* Bounds of the model.                                                    *)
(***************************************************************************)
NumUsers == 3        \* users of the weekly snapshots
MaxRows == 2         \* rows of the Game table
NumTeams == 3        \* rows of the Team table
NumWeeks == 2        \* week keys (year, week_number, season_type)
WeeksPerSeason == 1  \* weeks 1..WeeksPerSeason belong to season 1, and so on
MaxScore == 1        \* scores range over 0..MaxScore
MaxGuess == 2        \* tiebreaker guesses range over 0..MaxGuess
MaxStart == 2        \* kickoff instants range over 1..MaxStart
MaxNow == 2          \* the clock ranges over 0..MaxNow

None == -1           \* Python None, SQL NULL, an absent row (every real value is >= 0)

Users == 1 .. NumUsers
Teams == 1 .. NumTeams
Weeks == 1 .. NumWeeks
GameIds == 1 .. MaxRows
Scores == 0 .. MaxScore
Guesses == 0 .. MaxGuess

SCHEDULED == "scheduled"
IN_PROGRESS == "in_progress"
FINAL == "final"
GameStatus == {SCHEDULED, IN_PROGRESS, FINAL}

SeasonOf(w) == ((w - 1) \div WeeksPerSeason) + 1

(***************************************************************************)
(* Datetimes. A Python datetime is an instant with or without tzinfo.  The *)
(* SQLite DateTime column keeps no offset: a value read back is naive.     *)
(***************************************************************************)
Aware(t) == [t |-> t, aware |-> TRUE]
Naive(t) == [t |-> t, aware |-> FALSE]

\* What a DateTime(timezone=True) column returns for a value written to it.
ColumnRoundTrip(dt) == Naive(dt.t)

\* _aware_utc: naive values are taken as UTC, aware ones converted to UTC.
AwareUtc(dt) == IF dt.aware THEN dt ELSE Aware(dt.t)

\* datetime.__ne__: a naive and an aware datetime are never equal.
DtNe(a, b) == (a.aware # b.aware) \/ (a.t # b.t)

Range(s) == {s[i] : i \in DOMAIN s}

\* All orders (sequences without repetition) of the finite set S.
Perms(S) == {p \in [1 .. Cardinality(S) -> S] : \A i, j \in DOMAIN p : i # j => p[i] # p[j]}

(***************************************************************************)
(* Python's max(iterable, key=...): the first element whose key is         *)
(* maximal.  keys[i] is the key of the i-th element, a pair compared as a  *)
(* tuple; the result is the index of the element returned.                 *)
(***************************************************************************)
TupleGt(a, b) == a[1] > b[1] \/ (a[1] = b[1] /\ a[2] > b[2])

RECURSIVE PyMaxScan(_, _, _)
PyMaxScan(keys, i, best) ==
    IF i > Len(keys) THEN best
    ELSE PyMaxScan(keys, i + 1, IF TupleGt(keys[i], keys[best]) THEN i ELSE best)

PyMaxIndex(keys) == PyMaxScan(keys, 2, 1)

(***************************************************************************)
(* Outcome engine: per-game winner and per-user counts.                    *)
(***************************************************************************)
\* winners_by_game[g.id] of a FINAL game row: the higher-scoring side, None on a tie.
WinnerOf(g) ==
    IF g.home_score > g.away_score THEN g.home_team_id
    ELSE IF g.away_score > g.home_score THEN g.away_team_id
    ELSE None

\* The ids of final_games (in query order) whose winner is not None.
DecidedIds(finalIds) == SelectSeq(finalIds, LAMBDA i : WinnerOf(games[i]) # None)

\* pick_counts[u]: the picks of u on the decided games.
RECURSIVE PickCount(_, _)
PickCount(u, ids) ==
    IF ids = <<>> THEN 0
    ELSE (IF picks[<<u, Head(ids)>>] # None THEN 1 ELSE 0) + PickCount(u, Tail(ids))

\* correct_counts[u]: the picks of u on the decided games that name the winner.
RECURSIVE CorrectCount(_, _)
CorrectCount(u, ids) ==
    IF ids = <<>> THEN 0
    ELSE (IF picks[<<u, Head(ids)>>] # None
             /\ picks[<<u, Head(ids)>>] = WinnerOf(games[Head(ids)])
          THEN 1 ELSE 0) + CorrectCount(u, Tail(ids))

\* The keys of pick_counts: the users with a pick on a decided game.
CountedUsers(ids) == {u \in DOMAIN users : PickCount(u, ids) > 0}

(***************************************************************************)
(* _weekly_lunch.  gord is the order in which the query returns the week's *)
(* games, uord the order in which users first occur in the picks query     *)
(* (neither query has an ORDER BY).                                        *)
(***************************************************************************)
Inf == 1000000       \* float("inf"): above every distance

WeekGameIds(w) == {i \in DOMAIN games : games[i].week_id = w}

LunchFinalIds(gord) == SelectSeq(gord, LAMBDA i : games[i].status = FINAL)

\* The result of the early returns: only status and the two counts are present.
LunchShort(status, total, decided) ==
    [status |-> status, total_games |-> total, decided_games |-> decided,
     winner_uids |-> <<>>, loser_uids |-> <<>>, actual_total |-> None,
     tiebreaker_applied |-> FALSE, loser_tiebreaker_applied |-> FALSE]

\* week_finalized: every game of the week is FINAL.
WeekFinalizedAny(decided_games, total_games) == decided_games > 0

WeekFinalized(decided_games, total_games) == decided_games = total_games

\* The filter of `eligible`: a guess that does not exceed the actual total.
TbEligibleAnyGuess(r, actual_total) == r.tb # None

TbEligible(r, actual_total) == r.tb # None /\ r.tb <= actual_total

\* best = max(eligible, key=tb): the index of the winning row in eligible.
BestIndexFirst(eligible) == 1

BestIndex(eligible) == PyMaxIndex([k \in DOMAIN eligible |-> <<eligible[k].tb, 0>>])

\* losers: the rows at min_correct, only with more than one participant.
LosersOfAlways(rows, min_correct) == SelectSeq(rows, LAMBDA r : r.correct = min_correct)

LosersOf(rows, min_correct) ==
    IF Len(rows) > 1 THEN SelectSeq(rows, LAMBDA r : r.correct = min_correct) ELSE <<>>

\* _loss_key of a row, given actual_total.
LossKeyMissingBest(r, actual_total) ==
    IF r.tb = None THEN <<0, 0>>
    ELSE IF r.tb <= actual_total THEN <<1, actual_total - r.tb>>
    ELSE <<2, r.tb - actual_total>>

LossKey(r, actual_total) ==
    IF r.tb = None THEN <<3, Inf>>
    ELSE IF r.tb <= actual_total THEN <<1, actual_total - r.tb>>
    ELSE <<2, r.tb - actual_total>>

\* last_game = max(final_games, key=start time as UTC)
LastGameInList(finalIds) == games[finalIds[Len(finalIds)]]

LastGame(finalIds) ==
    games[finalIds[PyMaxIndex([k \in DOMAIN finalIds |->
                                  <<AwareUtc(games[finalIds[k]].start_time).t, 0>>])]]

WeeklyLunch(w, gord, uord) ==
    IF w = None \/ weeks[w] = None THEN LunchShort("no_week", 0, 0)
    ELSE
    LET total_games == Len(gord)
        final_games == LunchFinalIds(gord)
        decided_games == Len(final_games)
        week_finalized == WeekFinalized(decided_games, total_games)
        decided_ids == DecidedIds(final_games)
    IN  IF total_games = 0 THEN LunchShort("no_games", 0, 0)
        ELSE IF CountedUsers(decided_ids) = {} THEN
            LunchShort("pending", total_games, decided_games)
        ELSE
        LET actual_total ==
                IF week_finalized /\ final_games # <<>>
                THEN LastGame(final_games).home_score + LastGame(final_games).away_score
                ELSE None
            rows == [k \in DOMAIN uord |->
                        [user_id |-> uord[k],
                         correct |-> CorrectCount(uord[k], decided_ids),
                         picks |-> PickCount(uord[k], decided_ids),
                         tb |-> tbs[<<uord[k], w>>]]]
            corrects == {rows[k].correct : k \in DOMAIN rows}
            max_correct == CHOOSE m \in corrects : \A c \in corrects : c <= m
            min_correct == CHOOSE m \in corrects : \A c \in corrects : m <= c
            winners == SelectSeq(rows, LAMBDA r : r.correct = max_correct)
            losers == LosersOf(rows, min_correct)
            eligible == IF actual_total = None THEN <<>>
                        ELSE SelectSeq(winners, LAMBDA r : TbEligible(r, actual_total))
            tb_applied == week_finalized /\ Len(winners) > 1 /\ actual_total # None
                          /\ eligible # <<>>
            best == eligible[BestIndex(eligible)]
            winner_uids == IF tb_applied THEN <<best.user_id>>
                           ELSE [k \in DOMAIN winners |-> winners[k].user_id]
            loser_tb_applied == week_finalized /\ Len(losers) > 1 /\ actual_total # None
            worst == losers[PyMaxIndex([k \in DOMAIN losers |->
                                           LossKey(losers[k], actual_total)])]
            loser_uids == IF loser_tb_applied THEN <<worst.user_id>>
                          ELSE [k \in DOMAIN losers |-> losers[k].user_id]
        IN  [status |-> IF week_finalized /\ Len(winner_uids) > 0
                        THEN "decided" ELSE "pending",
             total_games |-> total_games,
             decided_games |-> decided_games,
             winner_uids |-> winner_uids,
             loser_uids |-> loser_uids,
             actual_total |-> actual_total,
             tiebreaker_applied |-> tb_applied,
             loser_tiebreaker_applied |-> loser_tb_applied]

NoLunch == [week |-> None, ret |-> LunchShort("none", 0, 0)]

\* A dashboard request for week w computes the weekly lunch outcome.
GetWeeklyLunch(w) ==
    /\ \E gord \in Perms(WeekGameIds(w)) :
         \E uord \in Perms(CountedUsers(DecidedIds(LunchFinalIds(gord)))) :
            lunch' = [week |-> w, ret |-> WeeklyLunch(w, gord, uord)]
    /\ UNCHANGED <<espn, poll, feed, recon, teams, ups, users, games, weeks, picks, tbs, now, board, imp, save, served,
                 cache, negcache, epoch, live>>

(***************************************************************************)
(* _season_leaderboard.  Names are sequences of character codes; the sort  *)
(* key lower-cases them.  An accuracy corr / total is kept as the pair     *)
(* <<corr, total>> and compared as a fraction.                             *)
(***************************************************************************)
TopN == 10           \* board[:10]
MaxPermuted == 3     \* largest result set whose every query order is tried

\* str.lower() on the codes of A..Z.
Lower(name) == [k \in DOMAIN name |-> IF name[k] \in 65 .. 90 THEN name[k] + 32 ELSE name[k]]

\* str.__lt__: lexicographic by code point, a proper prefix first.
StrLess(a, b) ==
    \E k \in 1 .. Len(b) :
        /\ k - 1 <= Len(a)
        /\ \A j \in 1 .. (k - 1) : a[j] = b[j]
        /\ (k = Len(a) + 1 \/ (k <= Len(a) /\ a[k] < b[k]))

\* The elements of a finite set of numbers in ascending order.
RECURSIVE AscSeq(_)
AscSeq(S) ==
    IF S = {} THEN <<>>
    ELSE LET m == CHOOSE x \in S : \A y \in S : x <= y
         IN  <<m>> \o AscSeq(S \ {m})

Reverse(q) == [k \in DOMAIN q |-> q[Len(q) + 1 - k]]

\* The orders in which a query without ORDER BY may return the rows S.
QueryOrders(S) ==
    IF Cardinality(S) <= MaxPermuted THEN Perms(S) ELSE {AscSeq(S), Reverse(AscSeq(S))}

\* _active_season: the season of the selected week, else the newest season.
ActiveSeason(sel) ==
    IF sel # None THEN (IF weeks[sel] # None THEN SeasonOf(sel) ELSE None)
    ELSE LET ss == {SeasonOf(w) : w \in {x \in Weeks : weeks[x] # None}}
         IN  IF ss = {} THEN None ELSE CHOOSE x \in ss : \A y \in ss : y <= x

\* final_games: the FINAL games of the season.
SeasonFinalIdsAnySeason(season) == {i \in DOMAIN games : games[i].status = FINAL}

SeasonFinalIds(season) ==
    {i \in DOMAIN games : games[i].season_id = season /\ games[i].status = FINAL}

\* pct = (corr / total) if total else 0.0
Pct(corr, total) == IF total # 0 THEN <<corr, total>> ELSE <<0, 1>>

PctGt(a, b) == a[1] * b[2] > b[1] * a[2]

\* The third component of the sort key: x["name"].lower()
NameKeyRaw(e) == e.name

NameKey(e) == Lower(e.name)

\* key(a) < key(b) for key = (-correct, -pct, name.lower())
KeyLess(a, b) ==
    \/ a.correct > b.correct
    \/ a.correct = b.correct /\ PctGt(a.pct, b.pct)
    \/ a.correct = b.correct /\ ~PctGt(a.pct, b.pct) /\ ~PctGt(b.pct, a.pct)
       /\ StrLess(NameKey(a), NameKey(b))

\* list.sort is stable: x goes before the first element it is strictly less than.
RECURSIVE InsertSorted(_, _)
InsertSorted(x, q) ==
    IF q = <<>> THEN <<x>>
    ELSE IF KeyLess(x, Head(q)) THEN <<x>> \o q
    ELSE <<Head(q)>> \o InsertSorted(x, Tail(q))

RECURSIVE StableSort(_, _)
StableSort(q, acc) ==
    IF q = <<>> THEN acc ELSE StableSort(Tail(q), InsertSorted(Head(q), acc))

\* board[:10]
Truncate(q) == SubSeq(q, 1, IF Len(q) < TopN THEN Len(q) ELSE TopN)

SeasonLeaderboard(sel, uord) ==
    LET season == ActiveSeason(sel)
    IN  IF season = None THEN [ret |-> <<>>, decided |-> 0]
        ELSE
        LET decided_game_ids ==
                DecidedIds(AscSeq(SeasonFinalIds(season)))
            entries == [k \in DOMAIN uord |->
                          [user_id |-> uord[k],
                           name |-> users[uord[k]],
                           correct |-> CorrectCount(uord[k], decided_game_ids),
                           picks |-> PickCount(uord[k], decided_game_ids),
                           pct |-> Pct(CorrectCount(uord[k], decided_game_ids),
                                       PickCount(uord[k], decided_game_ids))]]
        IN  IF decided_game_ids = <<>> THEN [ret |-> <<>>, decided |-> 0]
            ELSE [ret |-> Truncate(StableSort(entries, <<>>)),
                  decided |-> Len(decided_game_ids)]

NoBoard == [called |-> FALSE, week |-> None, ret |-> <<>>, decided |-> 0]

\* A dashboard request with selected week sel computes the season leaderboard.
GetLeaderboard(sel) ==
    /\ LET season == ActiveSeason(sel)
           ids == IF season = None THEN <<>>
                  ELSE DecidedIds(AscSeq(SeasonFinalIds(season)))
       IN  \E uord \in QueryOrders(CountedUsers(ids)) :
              board' = [called |-> TRUE, week |-> sel,
                        ret |-> SeasonLeaderboard(sel, uord).ret,
                        decided |-> SeasonLeaderboard(sel, uord).decided]
    /\ UNCHANGED <<espn, poll, feed, recon, teams, ups, users, games, weeks, picks, tbs, now, lunch, imp, save, served,
                 cache, negcache, epoch, live>>

(***************************************************************************)
(* The Team table.  Abbreviations and slugs are sequences of character     *)
(* codes; names, locations and logo paths are opaque values (location 0 is *)
(* the empty string).  The alt_abbrs column holds JSON text or NULL.       *)
(***************************************************************************)
\* json.dumps of a list of strings: the text, told apart from NULL.
JsonDumps(list) == [null |-> FALSE, list |-> list]

NullText == [null |-> TRUE, list |-> <<>>]

\* Team.alt_abbreviations: the list in the column, empty for NULL.
AltAbbreviations(t) == IF t.alt_abbrs.null THEN <<>> ELSE t.alt_abbrs.list

\* The seeded table: team t has abbr "A", "B", "C"; team 1 also answers to "Z".
TeamAbbr(t) == <<64 + t>>
TeamAlts(t) == IF t = 1 THEN {<<90>>} ELSE {}

\* str.upper on character codes.
Upper(s) == [i \in DOMAIN s |-> IF s[i] >= 97 /\ s[i] <= 122 THEN s[i] - 32 ELSE s[i]]

TeamTable ==
    [t \in Teams |->
        [abbr |-> TeamAbbr(t), name |-> t, location |-> t,
         slug |-> <<96 + t>>,
         alt_abbrs |-> JsonDumps(IF t = 1 THEN <<<<90>>>> ELSE <<>>),
         logo_path |-> None]]

NoUpsert == [calls |-> 0, list |-> <<>>, inserted |-> 0, updated |-> 0, repeat |-> FALSE]

(***************************************************************************)
(* The live summaries, services/nfl/live.py: bulk_fetch_live_events over   *)
(* the module's positive and negative caches, and fetch_live_event, whose  *)
(* outbound request the provider answers with a summary, with not found or *)
(* gone (404/410), or fails in any other way (transport, status, parse).   *)
(***************************************************************************)
CACHE_TTL_SECONDS == 15
NEGATIVE_TTL_SECONDS == 600

NumEvents == 2       \* event ids
MaxCalls == 2        \* calls of bulk_fetch_live_events
MaxAdvances == 2     \* advances of the clock
MaxDelay == 1        \* seconds until a call's not-found answer arrives

EventIds == 1 .. NumEvents

LiveGame(state, home_score, away_score) ==
    [state |-> state, home_score |-> home_score, away_score |-> away_score]

\* No LiveGame: the key is missing from a mapping, or the function returned None.
Absent == LiveGame("absent", None, None)

\* Summaries the provider answers with while the caches are exercised.
LiveSamples == {LiveGame("in", 1, 0), LiveGame("post", 1, 0)}

Responses ==
    {[kind |-> "ok", lg |-> lg] : lg \in LiveSamples}
        \cup {[kind |-> "notfound", lg |-> Absent], [kind |-> "error", lg |-> Absent]}

\* fetch_live_event: the LiveGame returned, None for every failure.
FetchLiveEvent(resp) == IF resp.kind = "ok" THEN resp.lg ELSE Absent

NoEntry == [at |-> None, lg |-> Absent]

\* The last outbound request for an id: its answer, the time of the call that
\* made it, the time of the answer, and the answer of the request before it.
NoFetch == [kind |-> "none", at |-> None, done |-> None, lg |-> Absent, prev |-> "none"]

NoLive ==
    [calls |-> 0, advances |-> 0, ids |-> {}, force |-> FALSE, fetched |-> {},
     out |-> [e \in EventIds |-> Absent], log |-> [e \in EventIds |-> NoFetch]]

LiveInit ==
    /\ cache = [e \in EventIds |-> NoEntry]
    /\ negcache = [e \in EventIds |-> None]
    /\ epoch = 0
    /\ live = NoLive

NegSkipBefore(neg_expiry, t) == neg_expiry # None /\ t < neg_expiry

\* neg_expiry is not None and now <= neg_expiry
NegSkip(neg_expiry, t) == neg_expiry # None /\ t <= neg_expiry

CacheFreshAlways(cached, t) == cached.at # None

\* cached and (now - cached[0] <= _CACHE_TTL_SECONDS)
CacheFresh(cached, t) == cached.at # None /\ t - cached.at <= CACHE_TTL_SECONDS

NegRecordedAlways(resp) == resp.kind # "ok"

\* status in (404, 410)
NegRecorded(resp) == resp.kind = "notfound"

\* The whole call at time t; the outbound requests are answered by resp,
\* a not-found answer arriving at t + d.
BulkFetchLiveEvents(ids, force, t, resp, d) ==
    LET c0 == [e \in EventIds |-> IF force /\ e \in ids THEN NoEntry ELSE cache[e]]
        n0 == [e \in EventIds |-> IF force /\ e \in ids THEN None ELSE negcache[e]]
        skipped == {e \in ids : ~force /\ NegSkip(n0[e], t)}
        reused == {e \in ids \ skipped : ~force /\ CacheFresh(c0[e], t)}
        to_fetch == ids \ (skipped \cup reused)
        got == {e \in to_fetch : FetchLiveEvent(resp[e]) # Absent}
    IN  [out |-> [e \in EventIds |->
                    IF e \in reused THEN c0[e].lg
                    ELSE IF e \in got THEN FetchLiveEvent(resp[e]) ELSE Absent],
         cache |-> [e \in EventIds |->
                    IF e \in got THEN [at |-> t, lg |-> FetchLiveEvent(resp[e])]
                    ELSE c0[e]],
         negcache |-> [e \in EventIds |->
                    IF e \in to_fetch /\ NegRecorded(resp[e])
                    THEN t + d + NEGATIVE_TTL_SECONDS ELSE n0[e]],
         fetched |-> to_fetch]

\* The record of the call of bulk_fetch_live_events that returned r.
LiveAfter(ids, force, resp, d, r) ==
    [calls |-> live.calls + 1, advances |-> live.advances,
     ids |-> ids, force |-> force,
     fetched |-> r.fetched, out |-> r.out,
     log |-> [e \in EventIds |->
                IF e \in r.fetched
                THEN [kind |-> resp[e].kind, at |-> epoch,
                      done |-> epoch + d, lg |-> resp[e].lg,
                      prev |-> live.log[e].kind]
                ELSE live.log[e]]]

\* Answers are drawn for the ids fetched only, and a call takes time only
\* for a not-found answer.
AnswersFor(r, resp, d) ==
    /\ \A e \in EventIds \ r.fetched : resp[e] = [kind |-> "error", lg |-> Absent]
    /\ (\A e \in r.fetched : ~NegRecorded(resp[e])) => d = 0

\* The event ids the Game rows hold.
HeldIds(rows) ==
    {rows[i].provider_game_id : i \in {j \in DOMAIN rows : rows[j].provider_game_id # None}}

\* What the live source would answer at the time of a reconciliation, whether
\* asked or not: drawn for the ids the Game rows hold.
SourceFor(rows, fetched, resp, d) ==
    /\ \A e \in EventIds \ HeldIds(rows) : resp[e] = [kind |-> "error", lg |-> Absent]
    /\ (\A e \in fetched : ~NegRecorded(resp[e])) => d = 0

\* A call of bulk_fetch_live_events(ids, force).
BulkFetch(ids, force, resp, d) ==
    LET r == BulkFetchLiveEvents(ids, force, epoch, resp, d)
    IN  /\ live.calls < MaxCalls
        /\ AnswersFor(r, resp, d)
        /\ cache' = r.cache
        /\ negcache' = r.negcache
        /\ epoch' = epoch + d
        /\ live' = LiveAfter(ids, force, resp, d, r)
        /\ UNCHANGED <<espn, poll, feed, recon, teams, ups, users, games, weeks, picks, tbs, now, lunch, board, imp, save, served>>

\* Time passes between calls: a second, a positive TTL or a negative TTL.
Advance(j) ==
    /\ live.advances < MaxAdvances
    /\ epoch' = epoch + j
    /\ live' = [live EXCEPT !.advances = @ + 1]
    /\ UNCHANGED <<espn, poll, feed, recon, teams, ups, users, games, weeks, picks, tbs, now, lunch, board, imp, save, served,
                   cache, negcache>>

\* get_week_schedule has not been called.
NoEspn == [called |-> FALSE, events |-> <<>>, ret |-> <<>>]

\* No run of the periodic job is in flight.
NoPoll ==
    [pc |-> "idle", loaded |-> <<>>, selected |-> {},
     out |-> [e \in EventIds |-> Absent], runs |-> 0]

\* The live source as the reconciliations draw it, answer by answer.
NoFeed == [settled |-> FALSE, answers |-> [e \in EventIds |-> [kind |-> "error", lg |-> Absent]]]

\* No reconciliation has run.
NoRecon ==
    [runs |-> 0, kind |-> "none", week |-> None, selected |-> {},
     before |-> <<>>,
     source |-> [e \in EventIds |-> [kind |-> "error", lg |-> Absent]],
     out |-> [e \in EventIds |-> Absent], pc |-> "idle", remaining |-> {},
     sb |-> [e \in EventIds |-> Absent],
     updated |-> 0, finalized |-> 0]

(***************************************************************************)
(* Weekly snapshots: the store as it stands at some dashboard request for  *)
(* week 1.  A snapshot has n games and m users holding picks or guesses,   *)
(* n + m <= SnapSize.  Row i of the Game table is SnapHome(i) v            *)
(* SnapAway(i).                                                            *)
(***************************************************************************)
SnapSize == 4

SnapHome(i) == ((i - 1) % NumTeams) + 1
SnapAway(i) == (i % NumTeams) + 1

SnapName(u) == <<96 + u>>

\* A row no live update touched is SCHEDULED 0-0; a game under way has a
\* running score; a FINAL game has any score.
SnapStates ==
    {s \in [status : GameStatus, home_score : Scores, away_score : Scores] :
        /\ s.status = SCHEDULED => (s.home_score = 0 /\ s.away_score = 0)
        /\ s.status = IN_PROGRESS => s.away_score = 0}

SnapRow(i, w, t, s) ==
    [week_id |-> w, season_id |-> SeasonOf(w),
     home_team_id |-> SnapHome(i), away_team_id |-> SnapAway(i),
     start_time |-> Naive(t), status |-> s.status,
     home_score |-> s.home_score, away_score |-> s.away_score,
     provider_game_id |-> i]

\* The first game kicks off at any instant, the others at instant 1.
SnapGames(n) ==
    {[i \in 1 .. n |-> SnapRow(i, 1, IF i = 1 THEN t ELSE 1, ss[i])] :
        t \in 1 .. MaxStart, ss \in [1 .. n -> SnapStates]}

\* Pick rows of users 1..m on games 1..n: no row, the home team or the away team.
SnapPicks(n, m) ==
    {[k \in Users \X GameIds |->
        IF k[1] <= m /\ k[2] <= n
        THEN (IF c[k] = 0 THEN None
              ELSE IF c[k] = 1 THEN SnapHome(k[2]) ELSE SnapAway(k[2]))
        ELSE None] :
        c \in [(1 .. m) \X (1 .. n) -> 0 .. 2]}

TbUniqueOff(t) == TRUE

\* uq_week_points_unique: no two rows of a week hold the same guess.
TbUnique(t) ==
    \A k1, k2 \in DOMAIN t :
        (k1 # k2 /\ k1[2] = k2[2] /\ t[k1] # None) => t[k1] # t[k2]

SnapTbs(m) ==
    {t \in {[k \in Users \X Weeks |->
                IF k[1] <= m /\ k[2] = 1 THEN c[k[1]] ELSE None] :
                c \in [1 .. m -> Guesses \cup {None}]} : TbUnique(t)}

NoImport ==
    [week |-> None, payload |-> <<>>, upserted |-> 0,
     rows_before |-> 0, rows_after |-> 0, repeat |-> FALSE]

\* The tiebreaker field was not read: the request was answered before.
NotRead == [kind |-> "notread", val |-> 0]

NoSave ==
    [week |-> None, user |-> None, admin |-> FALSE, status |-> "none",
     tb |-> NotRead, staged |-> 0]

NoneServed == [imports |-> 0, saves |-> 0]

InitLunch ==
    /\ users = [u \in Users |-> SnapName(u)]
    /\ \E n \in 1 .. MaxRows, m \in 1 .. NumUsers :
          /\ n + m <= SnapSize
          /\ games \in SnapGames(n)
          /\ picks \in SnapPicks(n, m)
          /\ tbs \in SnapTbs(m)
    /\ weeks = [w \in Weeks |-> IF w = 1 THEN 1 ELSE None]
    /\ now = MaxNow
    /\ lunch = NoLunch
    /\ board = NoBoard
    /\ imp = NoImport
    /\ save = NoSave
    /\ served = NoneServed
    /\ LiveInit
    /\ teams = TeamTable
    /\ ups = NoUpsert
    /\ recon = NoRecon
    /\ espn = NoEspn
    /\ poll = NoPoll
    /\ feed = NoFeed

NextLunch == \E w \in Weeks : GetWeeklyLunch(w)

SpecLunch == InitLunch /\ [][NextLunch]_vars

(***************************************************************************)
(* Season snapshots: the store at some dashboard request, with games in    *)
(* any weeks and named users; and crowded snapshots of one decided game    *)
(* picked by CrowdSize users, more than the board lists.                   *)
(***************************************************************************)
NameSet == {<<97>>, <<66>>, <<98>>}      \* "a", "B", "b"

CrowdSize == TopN + 1

\* Users 'a', 'B', 'c', 'D', ...
CrowdName(u) == IF u % 2 = 0 THEN <<64 + u>> ELSE <<96 + u>>

BoardGames(n) ==
    {[i \in 1 .. n |-> SnapRow(i, ws[i], 1, ss[i])] :
        ws \in [1 .. n -> Weeks], ss \in [1 .. n -> SnapStates]}

BoardUsers(m) ==
    {[u \in Users |-> IF u <= m THEN nm[u] ELSE SnapName(u)] : nm \in [1 .. m -> NameSet]}

CrowdGames ==
    {<<SnapRow(1, 1, 1, s)>> :
        s \in {x \in SnapStates : x.status = FINAL /\ x.home_score # x.away_score}}

CrowdPicks ==
    {[k \in (1 .. CrowdSize) \X GameIds |->
        IF k[2] = 1 THEN (IF c[k[1]] = 1 THEN SnapHome(1) ELSE SnapAway(1)) ELSE None] :
        c \in [1 .. CrowdSize -> 1 .. 2]}

InitBoard ==
    /\ \/ \E n \in 1 .. MaxRows, m \in 1 .. NumUsers :
            /\ n + m <= SnapSize
            /\ users \in BoardUsers(m)
            /\ games \in BoardGames(n)
            /\ picks \in SnapPicks(n, m)
            /\ tbs = [k \in Users \X Weeks |-> None]
       \/ /\ users = [u \in 1 .. CrowdSize |-> CrowdName(u)]
          /\ games \in CrowdGames
          /\ picks \in CrowdPicks
          /\ tbs = [k \in (1 .. CrowdSize) \X Weeks |-> None]
    /\ weeks = [w \in Weeks |-> IF WeekGameIds(w) # {} THEN 1 ELSE None]
    /\ now = MaxNow
    /\ lunch = NoLunch
    /\ board = NoBoard
    /\ imp = NoImport
    /\ save = NoSave
    /\ served = NoneServed
    /\ LiveInit
    /\ teams = TeamTable
    /\ ups = NoUpsert
    /\ recon = NoRecon
    /\ espn = NoEspn
    /\ poll = NoPoll
    /\ feed = NoFeed

NextBoard == \E sel \in Weeks \cup {None} : GetLeaderboard(sel)

SpecBoard == InitBoard /\ [][NextBoard]_vars

(***************************************************************************)
(* The schedule importer, import_week_schedule.  A request runs in its own *)
(* session (get_db) with autoflush off: the queries of the loop read the   *)
(* rows as committed before the call, and return the session's object of   *)
(* the row they find, with the changes the loop already made to it.  The   *)
(* default store is SQLite (config DATABASE_URL).                          *)
(***************************************************************************)
MaxPayload == 2      \* provider games in one schedule payload
MaxListed == 1       \* the same, while pick forms are being served
MaxImports == 3      \* import requests served
MaxSaves == 2        \* pick form requests served
MaxRequests == 3     \* requests served in all, while pick forms are being served

LookupCanonical(abbr) ==
    LET hits == {t \in DOMAIN teams : Upper(teams[t].abbr) = Upper(abbr)}
    IN  IF hits = {} THEN None ELSE CHOOSE t \in hits : \A o \in hits : o <= t

\* lookup.get(abbr.upper()): the team id, or None.  A later team of the
\* table overwrites the key of an earlier one.
Lookup(abbr) ==
    LET hits == {t \in DOMAIN teams :
                    \/ Upper(teams[t].abbr) = Upper(abbr)
                    \/ \E k \in DOMAIN AltAbbreviations(teams[t]) :
                          Upper(AltAbbreviations(teams[t])[k]) = Upper(abbr)}
    IN  IF hits = {} THEN None ELSE CHOOSE t \in hits : \A o \in hits : o <= t

ProviderGame(h, a, t, id) ==
    [home_abbr |-> h, away_abbr |-> a, start_time |-> Aware(t), provider_game_id |-> id]

\* What the provider may list for a week: "X" is no team of the table.
ProviderGames ==
    {ProviderGame(<<65>>, <<66>>, 1, 1),
     ProviderGame(<<65>>, <<66>>, 1, None),
     ProviderGame(<<67>>, <<66>>, 1, 1),
     ProviderGame(<<65>>, <<66>>, 2, 1),
     ProviderGame(<<67>>, <<65>>, 2, 2),
     ProviderGame(<<90>>, <<66>>, 1, 1),
     ProviderGame(<<88>>, <<66>>, 2, 2)}

Payloads(max) == UNION {[1 .. n -> ProviderGames] : n \in 0 .. max}

SetMin(S) == CHOOSE x \in S : \A y \in S : x <= y

KickoffLatest(start_times) ==
    CHOOSE x \in {start_times[k].t : k \in DOMAIN start_times} :
        \A k \in DOMAIN start_times : start_times[k].t <= x

\* min(start_times)
Kickoff(start_times) == SetMin({start_times[k].t : k \in DOMAIN start_times})

\* Query by (week, provider_game_id), .first(): the lowest matching row id.
FindById(db, w, id) ==
    LET hits == {i \in DOMAIN db : db[i].week_id = w /\ db[i].provider_game_id = id}
    IN  IF hits = {} THEN None ELSE SetMin(hits)

FindByTeamsNever(db, w, home, away, st) == None

\* Query by (week, home, away, start_time), .first().  SQL compares the
\* stored text of the instant with the text of the parameter.
FindByTeams(db, w, home, away, st) ==
    LET hits == {i \in DOMAIN db : /\ db[i].week_id = w
                                   /\ db[i].home_team_id = home
                                   /\ db[i].away_team_id = away
                                   /\ db[i].start_time.t = st.t}
    IN  IF hits = {} THEN None ELSE SetMin(hits)

NewGame(w, home, away, pg) ==
    [week_id |-> w, season_id |-> SeasonOf(w),
     home_team_id |-> home, away_team_id |-> away,
     start_time |-> pg.start_time, status |-> SCHEDULED,
     home_score |-> 0, away_score |-> 0,
     provider_game_id |-> pg.provider_game_id]

\* g.start_time != pg.start_time, on Python datetimes.
StartTimeChanged(g, pg) == DtNe(g.start_time, pg.start_time)

\* g.home_team_id != home.id or g.away_team_id != away.id
TeamsChanged(g, home, away) == g.home_team_id # home \/ g.away_team_id # away

\* One pass of the loop body for provider game pg.  st.rows are the
\* session's Game objects, db the committed rows.
ImportOne(st, db, w, pg) ==
    LET home == Lookup(pg.home_abbr)
        away == Lookup(pg.away_abbr)
        by_id == IF pg.provider_game_id # None
                 THEN FindById(db, w, pg.provider_game_id) ELSE None
        g == IF by_id # None THEN by_id
             ELSE FindByTeams(db, w, home, away, pg.start_time)
    IN  IF home = None \/ away = None THEN st
        ELSE IF g = None
        THEN [rows |-> Append(st.rows, NewGame(w, home, away, pg)),
              upserted |-> st.upserted + 1,
              start_times |-> Append(st.start_times, pg.start_time)]
        ELSE LET old == st.rows[g]
                 c1 == StartTimeChanged(old, pg)
                 c2 == TeamsChanged(old, home, away)
                 c3 == pg.provider_game_id # None
                       /\ old.provider_game_id # pg.provider_game_id
                 new == [old EXCEPT
                            !.start_time = IF c1 THEN pg.start_time ELSE @,
                            !.home_team_id = IF c2 THEN home ELSE @,
                            !.away_team_id = IF c2 THEN away ELSE @,
                            !.provider_game_id = IF c3 THEN pg.provider_game_id ELSE @]
             IN  [rows |-> [st.rows EXCEPT ![g] = new],
                  upserted |-> st.upserted + (IF c1 \/ c2 \/ c3 THEN 1 ELSE 0),
                  start_times |-> Append(st.start_times, pg.start_time)]

RECURSIVE ImportLoop(_, _, _, _, _)
ImportLoop(st, db, w, payload, k) ==
    IF k > Len(payload) THEN st
    ELSE ImportLoop(ImportOne(st, db, w, payload[k]), db, w, payload, k + 1)

\* The whole call: the committed tables after it and the number returned.
\* With no provider games the call returns before the commit, and closing
\* the session drops a week row it had just created.
ImportWeekSchedule(db, wk, w, payload, clock) ==
    LET created == IF wk[w] = None THEN clock ELSE wk[w]
        st == ImportLoop([rows |-> db, upserted |-> 0, start_times |-> <<>>],
                         db, w, payload, 1)
        kickoff == IF st.start_times # <<>>
                   THEN Kickoff(st.start_times)
                   ELSE created
    IN  IF payload = <<>>
        THEN [games |-> db, weeks |-> wk, upserted |-> 0]
        ELSE [games |-> [i \in DOMAIN st.rows |->
                            [st.rows[i] EXCEPT !.start_time = ColumnRoundTrip(@)]],
              weeks |-> [wk EXCEPT ![w] = kickoff],
              upserted |-> st.upserted]

\* POST /admin/nfl/import-week for week w, the provider answering payload.
ImportWeek(w, payload) ==
    LET r == ImportWeekSchedule(games, weeks, w, payload, now)
    IN  /\ served.imports < MaxImports
        /\ Len(r.games) <= MaxRows
        /\ games' = r.games
        /\ weeks' = r.weeks
        /\ imp' = [week |-> w, payload |-> payload, upserted |-> r.upserted,
                   rows_before |-> Len(games), rows_after |-> Len(r.games),
                   repeat |-> (imp.week = w /\ imp.payload = payload)]
        /\ served' = [served EXCEPT !.imports = @ + 1]
        /\ UNCHANGED <<espn, poll, feed, recon, teams, ups, users, picks, tbs, now, lunch, board, save,
                 cache, negcache, epoch, live>>

(***************************************************************************)
(* Reconciliation of Game rows with the live summaries: the periodic job   *)
(* run_live_scoreboard and the admin action admin_nfl_backfill_week.  In   *)
(* these runs an instant is an hour.                                       *)
(***************************************************************************)
LOOK_BACK_HOURS == 6
LOOK_AHEAD_HOURS == 10

MaxRuns == 1         \* reconciliations run

LiveStates == {"pre", "in", "post", ""}

\* Scores of a summary: both absent, a zero, both present, one present.
LiveScores == {<<None, None>>, <<0, None>>, <<1, 0>>, <<None, 1>>}

LiveGames == {LiveGame(s, sc[1], sc[2]) : s \in LiveStates, sc \in LiveScores}

ReconResponses ==
    {[kind |-> "ok", lg |-> lg] : lg \in LiveGames}
        \cup {[kind |-> "notfound", lg |-> Absent], [kind |-> "error", lg |-> Absent]}

StatusOfKeepsPre(state, old) ==
    IF state = "in" THEN IN_PROGRESS
    ELSE IF state = "post" THEN FINAL
    ELSE IF state = "pre" THEN SCHEDULED ELSE old

\* 'in' -> IN_PROGRESS, 'post' -> FINAL, anything else -> SCHEDULED
StatusOf(state, old) ==
    IF state = "in" THEN IN_PROGRESS
    ELSE IF state = "post" THEN FINAL ELSE SCHEDULED

ScoreGivenNonZero(score) == score # None /\ score # 0

\* lg.home_score is not None
ScoreGiven(score) == score # None

\* The assignments both reconciliations make to Game g for live state lg.
ApplyLive(g, lg) ==
    [g EXCEPT !.status = StatusOf(lg.state, @),
              !.home_score = IF ScoreGiven(lg.home_score) THEN lg.home_score ELSE @,
              !.away_score = IF ScoreGiven(lg.away_score) THEN lg.away_score ELSE @]

SelectedByJobAnyStatus(rows, t) ==
    {i \in DOMAIN rows :
        /\ rows[i].provider_game_id # None
        /\ rows[i].start_time.t >= t - LOOK_BACK_HOURS
        /\ rows[i].start_time.t <= t + LOOK_AHEAD_HOURS}

\* The query of the periodic job at instant t.
SelectedByJob(rows, t) ==
    {i \in DOMAIN rows :
        /\ rows[i].provider_game_id # None
        /\ rows[i].start_time.t >= t - LOOK_BACK_HOURS
        /\ rows[i].start_time.t <= t + LOOK_AHEAD_HOURS
        /\ rows[i].status # FINAL}

EventsOf(rows, sel) == {rows[i].provider_game_id : i \in sel}

\* Game rows sel take the live states of out, where it has one.
Reconciled(rows, sel, out) ==
    [i \in DOMAIN rows |->
        IF i \in sel /\ out[rows[i].provider_game_id] # Absent
        THEN ApplyLive(rows[i], out[rows[i].provider_game_id]) ELSE rows[i]]

\* The periodic job at the clock's instant: the games queried, the summaries
\* fetched through the cache, the mapping, the commit of session_scope.
LiveScoreboardRun(resp, d) ==
    LET sel == SelectedByJob(games, now)
        ids == EventsOf(games, sel)
        r == BulkFetchLiveEvents(ids, FALSE, epoch, resp, d)
    IN  /\ IF sel = {}
           THEN /\ SourceFor(games, {}, resp, d)
                /\ recon' = [NoRecon EXCEPT !.runs = recon.runs + 1, !.kind = "job",
                                            !.before = games, !.source = resp]
                /\ UNCHANGED <<games, cache, negcache, epoch, live>>
           ELSE /\ SourceFor(games, r.fetched, resp, d)
                /\ games' = Reconciled(games, sel, r.out)
                /\ cache' = r.cache
                /\ negcache' = r.negcache
                /\ epoch' = epoch + d
                /\ live' = LiveAfter(ids, FALSE, resp, d, r)
                /\ recon' = [NoRecon EXCEPT !.runs = recon.runs + 1, !.kind = "job",
                                            !.before = games, !.source = resp,
                                            !.selected = sel, !.out = r.out]
        /\ UNCHANGED <<espn, teams, ups, users, weeks, picks, tbs, now, lunch, board, imp,
                       save, served>>

\* A run of the job on its own.
RunLiveScoreboard(resp, d) ==
    /\ recon.runs < MaxRuns
    /\ recon.pc = "idle"
    /\ LiveScoreboardRun(resp, d)
    /\ UNCHANGED <<poll, feed>>

\* Rows of sel the mapping counts as updated, and as final.
CountedUpdated(before, after, sel, out) ==
    {i \in sel :
        /\ out[before[i].provider_game_id] # Absent
        /\ \/ after[i].status # before[i].status
           \/ out[before[i].provider_game_id].home_score # None
           \/ out[before[i].provider_game_id].away_score # None}

CountedFinal(after, sel, out) ==
    {i \in sel : out[after[i].provider_game_id] # Absent /\ after[i].status = FINAL}

\* The summaries r of the week's games sel are applied to rows and committed;
\* the ids without a summary, or with one that is not 'post', are left to
\* the fallback.
BackfillFromSummaries(rows, w, sel, ids, r, resp, d) ==
    LET after == Reconciled(rows, sel, r.out)
        remaining == {e \in ids : r.out[e] = Absent \/ r.out[e].state # "post"}
    IN  /\ SourceFor(rows, r.fetched, resp, d)
        /\ games' = after
        /\ cache' = r.cache
        /\ negcache' = r.negcache
        /\ epoch' = epoch + d
        /\ live' = LiveAfter(ids, TRUE, resp, d, r)
        /\ recon' = [runs |-> recon.runs + 1, kind |-> "admin", week |-> w,
                     selected |-> sel, before |-> rows, source |-> resp,
                     out |-> r.out,
                     pc |-> IF remaining # {} THEN "fallback" ELSE "idle",
                     remaining |-> remaining,
                     sb |-> [e \in EventIds |-> Absent],
                     updated |-> Cardinality(CountedUpdated(rows, after, sel, r.out)),
                     finalized |-> Cardinality(CountedFinal(after, sel, r.out))]

\* The games of week w with a provider id, among rows, are reconciled with
\* their summaries, fetched with force.
BackfillWeekGames(rows, w, sel, resp, d) ==
    IF sel = {}
    THEN /\ SourceFor(rows, {}, resp, d)
         /\ games' = rows
         /\ recon' = [NoRecon EXCEPT !.runs = recon.runs + 1, !.kind = "admin",
                                     !.week = w, !.before = rows, !.source = resp]
         /\ UNCHANGED <<cache, negcache, epoch, live>>
    ELSE BackfillFromSummaries(rows, w, sel, EventsOf(rows, sel),
             BulkFetchLiveEvents(EventsOf(rows, sel), TRUE, epoch, resp, d), resp, d)

WeekGamesWithId(rows, w) ==
    {i \in DOMAIN rows : rows[i].week_id = w /\ rows[i].provider_game_id # None}

\* POST /admin/nfl/backfill-week for week w, up to its first commit: the
\* schedule of the week is imported again, the summaries of the week's games
\* are fetched with force, and the mapping is applied.
AdminNflBackfillWeek(w, payload, resp, d) ==
    LET im == ImportWeekSchedule(games, weeks, w, payload, now)
    IN  /\ recon.runs < MaxRuns
        /\ recon.pc = "idle"
        /\ weeks[w] # None
        /\ Len(im.games) <= MaxRows
        /\ weeks' = im.weeks
        /\ imp' = [week |-> w, payload |-> payload, upserted |-> im.upserted,
                   rows_before |-> Len(games), rows_after |-> Len(im.games),
                   repeat |-> (imp.week = w /\ imp.payload = payload)]
        /\ BackfillWeekGames(im.games, w, WeekGamesWithId(im.games, w), resp, d)
        /\ UNCHANGED <<espn, poll, feed, teams, ups, users, picks, tbs, now, lunch, board, save, served>>

\* A scoreboard row (st, hs, as_) of sb_map, or Absent for an id it lacks.
ScoreboardRows ==
    {LiveGame("post", MaxScore, 0), LiveGame("pre", None, None), LiveGame("", None, MaxScore)}

\* The fallback's own mapping: a state other than in, post, pre keeps the status.
ApplyScoreboard(g, row) ==
    [g EXCEPT !.status = StatusOfKeepsPre(row.state, @),
              !.home_score = IF row.home_score # None THEN row.home_score ELSE @,
              !.away_score = IF row.away_score # None THEN row.away_score ELSE @]

\* The rest of the request: the scoreboard listing sb of the week is applied
\* to the games of the ids still unresolved, and committed.
AdminNflBackfillFallback(sb) ==
    LET sel == {i \in DOMAIN games :
                   /\ games[i].week_id = recon.week
                   /\ games[i].provider_game_id \in recon.remaining
                   /\ sb[games[i].provider_game_id] # Absent}
        after == [i \in DOMAIN games |->
                    IF i \in sel THEN ApplyScoreboard(games[i], sb[games[i].provider_game_id])
                    ELSE games[i]]
    IN  /\ recon.pc = "fallback"
        /\ \A e \in EventIds \ recon.remaining : sb[e] = Absent
        /\ games' = after
        /\ recon' = [recon EXCEPT
                        !.pc = "idle",
                        !.sb = sb,
                        !.updated = @ + Cardinality(CountedUpdated(games, after, sel, sb)),
                        !.finalized = @ + Cardinality(CountedFinal(after, sel, sb))]
        /\ UNCHANGED <<espn, poll, feed, teams, ups, users, weeks, picks, tbs, now, lunch, board, imp, save,
                       served, cache, negcache, epoch, live>>

(***************************************************************************)
(* The periodic job step by step, for runs that overlap a request: the     *)
(* query loads the rows into the job's session, the summaries are fetched, *)
(* and the commit writes, for each loaded row, the columns whose value the *)
(* loop changed from the value loaded (the unit of work emits an UPDATE of  *)
(* those columns only, by primary key).                                    *)
(***************************************************************************)
\* The query: the rows selected are loaded as they are committed now.
PollSelect ==
    LET sel == SelectedByJob(games, now)
    IN  /\ poll.pc = "idle"
        /\ poll.runs < MaxRuns
        /\ poll' = IF sel = {}
                   THEN [NoPoll EXCEPT !.runs = poll.runs + 1]
                   ELSE [pc |-> "selected", loaded |-> games, selected |-> sel,
                         out |-> [e \in EventIds |-> Absent], runs |-> poll.runs]
        /\ UNCHANGED <<espn, feed, recon, teams, ups, users, games, weeks, picks, tbs, now,
                       lunch, board, imp, save, served, cache, negcache, epoch, live>>

\* bulk_fetch_live_events(event_ids) for the rows loaded.
PollFetch(resp, d) ==
    LET ids == EventsOf(poll.loaded, poll.selected)
        r == BulkFetchLiveEvents(ids, FALSE, epoch, resp, d)
    IN  /\ poll.pc = "selected"
        /\ SourceFor(poll.loaded, r.fetched, resp, d)
        /\ cache' = r.cache
        /\ negcache' = r.negcache
        /\ epoch' = epoch + d
        /\ live' = LiveAfter(ids, FALSE, resp, d, r)
        /\ poll' = [poll EXCEPT !.pc = "fetched", !.out = r.out]
        /\ UNCHANGED <<espn, feed, recon, teams, ups, users, games, weeks, picks, tbs, now,
                       lunch, board, imp, save, served>>

\* The row the commit leaves for a row loaded as old and set to new by the
\* loop, the committed row being cur.
Flushed(cur, old, new) ==
    [cur EXCEPT !.status = IF new.status # old.status THEN new.status ELSE @,
                !.home_score = IF new.home_score # old.home_score THEN new.home_score ELSE @,
                !.away_score = IF new.away_score # old.away_score THEN new.away_score ELSE @]

\* The loop over the rows loaded and the commit of session_scope.
PollCommit ==
    /\ poll.pc = "fetched"
    /\ games' = [i \in DOMAIN games |->
                    IF i \in poll.selected
                       /\ poll.out[poll.loaded[i].provider_game_id] # Absent
                    THEN Flushed(games[i], poll.loaded[i],
                                 ApplyLive(poll.loaded[i],
                                           poll.out[poll.loaded[i].provider_game_id]))
                    ELSE games[i]]
    /\ poll' = [poll EXCEPT !.pc = "idle", !.runs = @ + 1]
    /\ UNCHANGED <<espn, feed, recon, teams, ups, users, weeks, picks, tbs, now,
                   lunch, board, imp, save, served, cache, negcache, epoch, live>>

(***************************************************************************)
(* The job under its interval trigger: a run every JOB_INTERVAL_SECONDS,   *)
(* one at a time, against a live source that answers anything until it     *)
(* settles on a final summary.                                             *)
(***************************************************************************)
JOB_INTERVAL_SECONDS == 60

MaxTriggers == 14    \* firings of the interval trigger
MaxUnsettled == 2    \* firings while the live source has not settled

\* The interval trigger fires.
Trigger ==
    /\ poll.pc = "idle"
    /\ poll.runs < (IF feed.settled THEN MaxTriggers ELSE MaxUnsettled)
    /\ epoch' = epoch + JOB_INTERVAL_SECONDS
    /\ poll' = [poll EXCEPT !.pc = "due", !.runs = @ + 1]
    /\ UNCHANGED <<espn, feed, recon, teams, ups, users, games, weeks, picks, tbs, now,
                   lunch, board, imp, save, served, cache, negcache, live>>

\* The run the trigger started: the source answers as it has settled, if it has.
ScheduledRun(resp, d) ==
    /\ poll.pc = "due"
    /\ feed.settled => resp = feed.answers
    /\ LiveScoreboardRun(resp, d)
    /\ poll' = [poll EXCEPT !.pc = "idle"]
    /\ UNCHANGED feed

\* From now on the live source answers the ids of the Game rows with 'post'
\* and the scores (h, a).
Settle(h, a) ==
    /\ ~feed.settled
    /\ poll.pc = "idle"
    /\ feed' = [settled |-> TRUE,
                answers |-> [e \in EventIds |->
                               IF e \in HeldIds(games)
                               THEN [kind |-> "ok", lg |-> LiveGame("post", h, a)]
                               ELSE [kind |-> "error", lg |-> Absent]]]
    /\ UNCHANGED <<espn, poll, recon, teams, ups, users, games, weeks, picks, tbs, now,
                   lunch, board, imp, save, served, cache, negcache, epoch, live>>

(***************************************************************************)
(* ESPNScoreboardProvider.get_week_schedule over the events of a           *)
(* scoreboard response.  A date string is missing, unparseable, or an      *)
(* ISO-8601 time: with a trailing Z, with an offset of off hours, or       *)
(* without an offset.  A competitor that is no JSON object makes the       *)
(* event's parse raise.                                                    *)
(***************************************************************************)
MaxEvents == 2       \* events in one scoreboard response

DateMissing == [kind |-> "missing", t |-> 0, off |-> 0]
DateBad == [kind |-> "bad", t |-> 0, off |-> 0]
DateZ(t) == [kind |-> "z", t |-> t, off |-> 0]
DateOffset(t, off) == [kind |-> "offset", t |-> t, off |-> off]
DateNaive(t) == [kind |-> "naive", t |-> t, off |-> 0]

Competitor(side, abbr) == [homeAway |-> side, abbr |-> abbr, object |-> TRUE]
NoObject == [homeAway |-> "", abbr |-> <<>>, object |-> FALSE]

Competition(date, competitors) == [date |-> date, competitors |-> competitors]

EspnEvent(competitions, date, id) ==
    [competitions |-> competitions, date |-> date, id |-> id]

HomeAndAway == <<Competitor("home", <<65>>), Competitor("away", <<66>>)>>

\* What a scoreboard response may list.
EspnEvents ==
    {EspnEvent(<<Competition(DateZ(1), HomeAndAway)>>, DateMissing, 1),
     EspnEvent(<<Competition(DateOffset(2, 1),
                   <<Competitor("away", <<99>>), Competitor("home", <<97>>)>>)>>,
               DateMissing, None),
     EspnEvent(<<Competition(DateNaive(1), HomeAndAway)>>, DateMissing, 2),
     EspnEvent(<<Competition(DateMissing, HomeAndAway)>>, DateZ(2), 2),
     EspnEvent(<<>>, DateZ(1), 1),
     EspnEvent(<<Competition(DateMissing, HomeAndAway)>>, DateMissing, 1),
     EspnEvent(<<Competition(DateBad, HomeAndAway)>>, DateMissing, 2),
     EspnEvent(<<Competition(DateZ(1), <<Competitor("away", <<66>>)>>)>>, DateMissing, 1),
     EspnEvent(<<Competition(DateZ(1),
                   <<Competitor("home", <<>>), Competitor("away", <<66>>)>>)>>,
               DateMissing, 1),
     EspnEvent(<<Competition(DateZ(1), <<Competitor("home", <<65>>), NoObject>>)>>,
               DateMissing, 1)}

EventLists == UNION {[1 .. n -> EspnEvents] : n \in 0 .. MaxEvents}

\* _parse_iso_utc: any failure is caught and answered with the current time.
ParseIsoUtc(s, clock) ==
    IF s.kind = "bad" THEN Aware(clock) ELSE Aware(s.t - s.off)

\* The abbreviation the loop over the competitors leaves for a side: that of
\* the last competitor of the side, upper-cased; <<>> for None or ''.
AbbrOf(competitors, side) ==
    LET at == {k \in DOMAIN competitors : competitors[k].homeAway = side}
    IN  IF at = {} THEN <<>>
        ELSE Upper(competitors[CHOOSE k \in at : \A j \in at : j <= k].abbr)

Skipped == [skip |-> TRUE, game |-> ProviderGame(<<>>, <<>>, 0, None)]

\* The body of the loop for one event: the game appended, or the event skipped
\* by a continue or by the except clause.
ParseEvent(ev, clock) ==
    IF ev.competitions = <<>> THEN Skipped
    ELSE LET comp == ev.competitions[1]
             date_str == IF comp.date.kind # "missing" THEN comp.date ELSE ev.date
             dt == ParseIsoUtc(date_str, clock)
             home_abbr == AbbrOf(comp.competitors, "home")
             away_abbr == AbbrOf(comp.competitors, "away")
         IN  IF date_str.kind = "missing" THEN Skipped
             ELSE IF \E k \in DOMAIN comp.competitors : ~comp.competitors[k].object
                  THEN Skipped
             ELSE IF home_abbr = <<>> \/ away_abbr = <<>> THEN Skipped
             ELSE [skip |-> FALSE,
                   game |-> [home_abbr |-> home_abbr, away_abbr |-> away_abbr,
                             start_time |-> dt, provider_game_id |-> ev.id]]

RECURSIVE ParseEvents(_, _, _)
ParseEvents(events, clock, k) ==
    IF k > Len(events) THEN <<>>
    ELSE LET r == ParseEvent(events[k], clock)
         IN  (IF r.skip THEN <<>> ELSE <<r.game>>) \o ParseEvents(events, clock, k + 1)

\* get_week_schedule on the response it received.
GetWeekSchedule ==
    /\ ~espn.called
    /\ espn' = [espn EXCEPT !.called = TRUE, !.ret = ParseEvents(espn.events, now, 1)]
    /\ UNCHANGED <<poll, feed, recon, teams, ups, users, games, weeks, picks, tbs, now,
                   lunch, board, imp, save, served, cache, negcache, epoch, live>>

(***************************************************************************)
(* upsert_teams_from_provider.                                             *)
(***************************************************************************)
MaxTeamList == 2     \* provider teams in one list
MaxUpserts == 3      \* calls of upsert_teams_from_provider

\* Optional[List[str]]: None, or a list.
NotGiven == [given |-> FALSE, list |-> <<>>]
Given(list) == [given |-> TRUE, list |-> list]

\* slug <<>> stands for None; logo_path is None or a path.
ProviderTeam(abbr, name, location, slug, alt_abbrs, logo_path) ==
    [abbr |-> abbr, name |-> name, location |-> location, slug |-> slug,
     alt_abbrs |-> alt_abbrs, logo_path |-> logo_path]

\* What a provider may list: "A" bare, "A" with an alternate and a logo, "a"
\* renamed with a slug of its own and an empty alternate list, "B" with
\* one logo or another.
ProviderTeams ==
    {ProviderTeam(<<65>>, 1, 1, <<>>, NotGiven, None),
     ProviderTeam(<<65>>, 1, 1, <<97>>, Given(<<<<90>>>>), 1),
     ProviderTeam(<<97>>, 2, 0, <<120>>, Given(<<>>), None),
     ProviderTeam(<<66>>, 3, 1, <<>>, NotGiven, 1),
     ProviderTeam(<<66>>, 3, 1, <<>>, NotGiven, 2)}

\* Lists of provider teams, no abbreviation listed twice.
TeamLists ==
    {l \in UNION {[1 .. n -> ProviderTeams] : n \in 0 .. MaxTeamList} :
        \A i, j \in DOMAIN l : i # j => Upper(l[i].abbr) # Upper(l[j].abbr)}

\* pt.slug or abbr.lower()
SlugOf(pt) == IF pt.slug # <<>> THEN pt.slug ELSE Lower(Upper(pt.abbr))

\* json.dumps(pt.alt_abbrs or [])
AltJson(pt) == JsonDumps(IF pt.alt_abbrs.given THEN pt.alt_abbrs.list ELSE <<>>)

AltChangedAlways(t, pt) ==
    (IF t.alt_abbrs.null THEN JsonDumps(<<>>) ELSE t.alt_abbrs) # AltJson(pt)

\* pt.alt_abbrs is not None and (t.alt_abbrs or "[]") != alt_json
AltChanged(t, pt) ==
    /\ pt.alt_abbrs.given
    /\ (IF t.alt_abbrs.null THEN JsonDumps(<<>>) ELSE t.alt_abbrs) # AltJson(pt)

LogoChangedAlways(t, pt) == t.logo_path # pt.logo_path

\* pt.logo_path and t.logo_path != pt.logo_path
LogoChanged(t, pt) == pt.logo_path # None /\ t.logo_path # pt.logo_path

\* One pass of the loop for provider team pt.  db are the rows read at the
\* start of the call, the source of existing_by_abbr; a later row of the
\* table takes the key of an earlier one.
UpsertOne(st, db, pt) ==
    LET abbr == Upper(pt.abbr)
        hits == {i \in DOMAIN db : Upper(db[i].abbr) = abbr}
    IN  IF hits = {}
        THEN [rows |-> Append(st.rows,
                         [abbr |-> abbr, name |-> pt.name, location |-> pt.location,
                          slug |-> SlugOf(pt), alt_abbrs |-> AltJson(pt),
                          logo_path |-> pt.logo_path]),
              inserted |-> st.inserted + 1, updated |-> st.updated]
        ELSE LET i == CHOOSE x \in hits : \A y \in hits : y <= x
                 t == st.rows[i]
                 changed == \/ t.name # pt.name
                            \/ t.location # pt.location
                            \/ t.slug # SlugOf(pt)
                            \/ AltChanged(t, pt)
                            \/ LogoChanged(t, pt)
                 new == [t EXCEPT
                           !.name = pt.name,
                           !.location = pt.location,
                           !.slug = SlugOf(pt),
                           !.alt_abbrs = IF AltChanged(t, pt) THEN AltJson(pt) ELSE @,
                           !.logo_path = IF LogoChanged(t, pt) THEN pt.logo_path ELSE @]
             IN  [rows |-> [st.rows EXCEPT ![i] = new],
                  inserted |-> st.inserted,
                  updated |-> st.updated + (IF changed THEN 1 ELSE 0)]

RECURSIVE UpsertLoop(_, _, _, _)
UpsertLoop(st, db, list, k) ==
    IF k > Len(list) THEN st
    ELSE UpsertLoop(UpsertOne(st, db, list[k]), db, list, k + 1)

UpsertTeamsFromProvider(db, list) ==
    UpsertLoop([rows |-> db, inserted |-> 0, updated |-> 0], db, list, 1)

\* Team.abbr and Team.slug are unique columns.
TeamsUnique(rows) ==
    \A i, j \in DOMAIN rows :
        i # j => (rows[i].abbr # rows[j].abbr /\ rows[i].slug # rows[j].slug)

\* POST /admin/nfl/import-teams, the provider answering list.  The commit
\* fails on a table that is not TeamsUnique; no list of ProviderTeams
\* leads to one.
UpsertTeams(list) ==
    LET r == UpsertTeamsFromProvider(teams, list)
    IN  /\ ups.calls < MaxUpserts
        /\ TeamsUnique(r.rows)
        /\ teams' = r.rows
        /\ ups' = [calls |-> ups.calls + 1, list |-> list,
                   inserted |-> r.inserted, updated |-> r.updated,
                   repeat |-> (ups.calls > 0 /\ ups.list = list)]
        /\ UNCHANGED <<espn, poll, feed, recon, users, games, weeks, picks, tbs, now, lunch, board, imp, save,
                       served, cache, negcache, epoch, live>>

(***************************************************************************)
(* The pick forms, picks_save and admin_picks_save.                        *)
(***************************************************************************)
IsLockedAfter(w) == now > weeks[w]

\* Week.is_locked: a naive first_kickoff_at is taken as UTC.
IsLocked(w) == now >= weeks[w]

\* The form: pick_<gid> fields (None: no such field) and the tiebreaker
\* text, which is blank or absent, an integer literal, or anything else.
Forms == [GameIds -> Teams \cup {None}]

TbRaws ==
    {[kind |-> "blank", val |-> 0], [kind |-> "junk", val |-> 0]}
        \cup {[kind |-> "int", val |-> v] : v \in (0 - 1) .. MaxGuess}

\* chosen_team_id in (g.home_team_id, g.away_team_id)
ChosenIsParticipant(g, tid) == tid = g.home_team_id \/ tid = g.away_team_id

ReturnedFlushed(stored, staged) == [picks |-> staged, tbs |-> tbs]

\* A return before db.commit(): get_db closes the session, and the Pick rows
\* the loop staged in it are dropped.
Returned(stored, staged) == [picks |-> stored, tbs |-> tbs]

\* The body both forms share, for target user u: the status of the
\* redirect and the committed tables.
SaveForm(u, w, form, raw) ==
    LET valid == {i \in DOMAIN games : form[i] # None /\ games[i].week_id = w}
        staged == {i \in valid : ChosenIsParticipant(games[i], form[i])}
        newpicks == [k \in DOMAIN picks |->
                        IF k[1] = u /\ k[2] \in staged THEN form[k[2]] ELSE picks[k]]
        newtbs == IF raw.kind = "blank" THEN tbs
                  ELSE [tbs EXCEPT ![<<u, w>>] = raw.val]
        read == [tb |-> raw, staged |-> Cardinality(staged)]
    IN  IF raw.kind = "junk" \/ (raw.kind = "int" /\ raw.val < 0)
        THEN [status |-> "tb_invalid"] @@ Returned(picks, newpicks) @@ read
        ELSE IF ~TbUnique(newtbs)
        THEN [status |-> "tb_unique", picks |-> picks, tbs |-> tbs] @@ read
        ELSE [status |-> "ok", picks |-> newpicks, tbs |-> newtbs] @@ read

Saved(u, w, admin, r) ==
    /\ served.saves < MaxSaves
    /\ picks' = r.picks
    /\ tbs' = r.tbs
    /\ save' = [week |-> w, user |-> u, admin |-> admin, status |-> r.status,
                tb |-> r.tb, staged |-> r.staged]
    /\ served' = [served EXCEPT !.saves = @ + 1]
    /\ UNCHANGED <<espn, poll, feed, recon, teams, ups, users, games, weeks, now, lunch, board, imp,
                 cache, negcache, epoch, live>>

Unsaved == [picks |-> picks, tbs |-> tbs, tb |-> NotRead, staged |-> 0]

\* POST /picks/save by user u for week w.
PicksSave(u, w, form, raw) ==
    Saved(u, w, FALSE,
          IF weeks[w] = None THEN [status |-> "noweek"] @@ Unsaved
          ELSE IF IsLocked(w) THEN [status |-> "locked"] @@ Unsaved
          ELSE SaveForm(u, w, form, raw))

\* POST /admin/picks/save by an administrator for user u and week w.
AdminPicksSave(u, w, form, raw) ==
    Saved(u, w, TRUE,
          IF weeks[w] = None THEN [status |-> "noweek"] @@ Unsaved
          ELSE SaveForm(u, w, form, raw))

\* Time passes.
Tick ==
    /\ now < MaxNow
    /\ now' = now + 1
    /\ UNCHANGED <<espn, poll, feed, recon, teams, ups, users, games, weeks, picks, tbs, lunch, board, imp, save, served,
                 cache, negcache, epoch, live>>

\* The store after construction: users registered, the schedule tables empty.
Init ==
    /\ users = [u \in Users |-> SnapName(u)]
    /\ games = <<>>
    /\ weeks = [w \in Weeks |-> None]
    /\ picks = [k \in Users \X GameIds |-> None]
    /\ tbs = [k \in Users \X Weeks |-> None]
    /\ now = 0
    /\ lunch = NoLunch
    /\ board = NoBoard
    /\ imp = NoImport
    /\ save = NoSave
    /\ served = NoneServed
    /\ LiveInit
    /\ teams = TeamTable
    /\ ups = NoUpsert
    /\ recon = NoRecon
    /\ espn = NoEspn
    /\ poll = NoPoll
    /\ feed = NoFeed

Requests == served.imports + served.saves

Next ==
    \/ /\ Requests < MaxRequests
       /\ \E w \in Weeks, payload \in Payloads(MaxListed) : ImportWeek(w, payload)
    \/ /\ Requests < MaxRequests
       /\ \E u \in Users, w \in Weeks, form \in Forms, raw \in TbRaws :
             PicksSave(u, w, form, raw)
    \/ /\ Requests < MaxRequests
       /\ \E u \in Users, w \in Weeks, form \in Forms, raw \in TbRaws :
             AdminPicksSave(u, w, form, raw)
    \/ Tick

Spec == Init /\ [][Next]_vars

\* The team import alone, from an empty Team table.
InitTeams ==
    /\ users = [u \in Users |-> SnapName(u)]
    /\ games = <<>>
    /\ weeks = [w \in Weeks |-> None]
    /\ picks = [k \in Users \X GameIds |-> None]
    /\ tbs = [k \in Users \X Weeks |-> None]
    /\ now = 0
    /\ lunch = NoLunch
    /\ board = NoBoard
    /\ imp = NoImport
    /\ save = NoSave
    /\ served = NoneServed
    /\ LiveInit
    /\ teams = <<>>
    /\ ups = NoUpsert
    /\ recon = NoRecon
    /\ espn = NoEspn
    /\ poll = NoPoll
    /\ feed = NoFeed

NextTeams == \E list \in TeamLists : UpsertTeams(list)

SpecTeams == InitTeams /\ [][NextTeams]_vars

\* The live summaries alone.
NextLive ==
    \/ \E ids \in SUBSET EventIds \ {{}}, force \in BOOLEAN, resp \in [EventIds -> Responses],
          d \in 0 .. MaxDelay : BulkFetch(ids, force, resp, d)
    \/ \E j \in {1, CACHE_TTL_SECONDS, NEGATIVE_TTL_SECONDS} : Advance(j)

SpecLive == Init /\ [][NextLive]_vars

\* The importer alone, on full payloads.
NextImport == \E w \in Weeks, payload \in Payloads(MaxPayload) : ImportWeek(w, payload)

SpecImport == Init /\ [][NextImport]_vars

\* The reconciliations alone, from a stored week whose games are scheduled,
\* under way or final, with or without a provider id, around the window.
MaxRefreshed == 0    \* provider games in the schedule refreshed by the admin action

ReconNow == LOOK_BACK_HOURS + 1

ReconStarts ==
    {0, 1, ReconNow + LOOK_AHEAD_HOURS, ReconNow + LOOK_AHEAD_HOURS + 1}

\* The first game kicks off around the window and may lack a provider id; the
\* others kick off now.
ReconGames(n) ==
    {[i \in 1 .. n |->
        [SnapRow(i, 1, IF i = 1 THEN t ELSE ReconNow, ss[i])
            EXCEPT !.provider_game_id = IF i = 1 THEN p ELSE i]] :
        t \in ReconStarts, p \in {None, 1}, ss \in [1 .. n -> SnapStates]}

InitRecon ==
    /\ users = [u \in Users |-> SnapName(u)]
    /\ \E n \in 1 .. MaxRows : games \in ReconGames(n)
    /\ weeks = [w \in Weeks |-> IF w = 1 THEN 1 ELSE None]
    /\ picks = [k \in Users \X GameIds |-> None]
    /\ tbs = [k \in Users \X Weeks |-> None]
    /\ now = ReconNow
    /\ lunch = NoLunch
    /\ board = NoBoard
    /\ imp = NoImport
    /\ save = NoSave
    /\ served = NoneServed
    /\ LiveInit
    /\ teams = TeamTable
    /\ ups = NoUpsert
    /\ recon = NoRecon
    /\ espn = NoEspn
    /\ poll = NoPoll
    /\ feed = NoFeed

\* A reconciliation starts when none is under way.
ReconIdle == recon.runs < MaxRuns /\ recon.pc = "idle"

NextRecon ==
    \/ /\ ReconIdle
       /\ \E resp \in [EventIds -> ReconResponses], d \in 0 .. MaxDelay :
             RunLiveScoreboard(resp, d)
    \/ /\ ReconIdle
       /\ \E w \in Weeks, payload \in Payloads(MaxRefreshed),
             resp \in [EventIds -> ReconResponses], d \in 0 .. MaxDelay :
             AdminNflBackfillWeek(w, payload, resp, d)
    \/ /\ recon.pc = "fallback"
       /\ \E sb \in [EventIds -> ScoreboardRows \cup {Absent}] : AdminNflBackfillFallback(sb)

SpecRecon == InitRecon /\ [][NextRecon]_vars

\* The live provider's schedule parse alone, on any response and clock.
InitEspn ==
    /\ users = [u \in Users |-> SnapName(u)]
    /\ games = <<>>
    /\ weeks = [w \in Weeks |-> None]
    /\ picks = [k \in Users \X GameIds |-> None]
    /\ tbs = [k \in Users \X Weeks |-> None]
    /\ now \in 0 .. MaxNow
    /\ lunch = NoLunch
    /\ board = NoBoard
    /\ imp = NoImport
    /\ save = NoSave
    /\ served = NoneServed
    /\ LiveInit
    /\ teams = TeamTable
    /\ ups = NoUpsert
    /\ recon = NoRecon
    /\ espn \in {[called |-> FALSE, events |-> evs, ret |-> <<>>] : evs \in EventLists}
    /\ poll = NoPoll
    /\ feed = NoFeed

NextEspn == GetWeekSchedule

SpecEspn == InitEspn /\ [][NextEspn]_vars

\* A run of the periodic job overlapping an admin reconciliation of the same
\* week: one game with a provider id, not final, kicking off now.
RaceGames ==
    {<<SnapRow(1, 1, ReconNow, st)>> : st \in {x \in SnapStates : x.status # FINAL}}

InitRace ==
    /\ users = [u \in Users |-> SnapName(u)]
    /\ games \in RaceGames
    /\ weeks = [w \in Weeks |-> IF w = 1 THEN 1 ELSE None]
    /\ picks = [k \in Users \X GameIds |-> None]
    /\ tbs = [k \in Users \X Weeks |-> None]
    /\ now = ReconNow
    /\ lunch = NoLunch
    /\ board = NoBoard
    /\ imp = NoImport
    /\ save = NoSave
    /\ served = NoneServed
    /\ LiveInit
    /\ teams = TeamTable
    /\ ups = NoUpsert
    /\ recon = NoRecon
    /\ espn = NoEspn
    /\ poll = NoPoll
    /\ feed = NoFeed

NextRace ==
    \/ PollSelect
    \/ /\ poll.pc = "selected"
       /\ \E resp \in [EventIds -> ReconResponses], d \in 0 .. MaxDelay : PollFetch(resp, d)
    \/ PollCommit
    \/ /\ ReconIdle
       /\ \E w \in Weeks, payload \in Payloads(MaxRefreshed),
             resp \in [EventIds -> ReconResponses], d \in 0 .. MaxDelay :
             AdminNflBackfillWeek(w, payload, resp, d)
    \/ /\ recon.pc = "fallback"
       /\ \E sb \in [EventIds -> ScoreboardRows \cup {Absent}] : AdminNflBackfillFallback(sb)

SpecRace == InitRace /\ [][NextRace]_vars

\* What the live source may answer a run: anything before it settles.
PollResponses ==
    IF feed.settled THEN {feed.answers}
    ELSE {[e \in EventIds |-> IF e \in HeldIds(games) THEN x
                                ELSE [kind |-> "error", lg |-> Absent]] :
             x \in ReconResponses}

ScheduledRuns ==
    /\ poll.pc = "due"
    /\ \E resp \in PollResponses, d \in 0 .. MaxDelay : ScheduledRun(resp, d)

\* The periodic job alone under its trigger, on one game that is not final.
NextPoll ==
    \/ Trigger
    \/ ScheduledRuns
    \/ \E h \in Scores, a \in Scores : Settle(h, a)

\* The trigger keeps firing and each run it starts completes.
SpecPoll ==
    InitRace /\ [][NextPoll]_vars /\ WF_vars(Trigger) /\ WF_vars(ScheduledRuns)

(***************************************************************************)
(* Vocabulary of the claims about the weekly outcome, stated on the store. *)
(***************************************************************************)
AllFinal(w) == \A i \in WeekGameIds(w) : games[i].status = FINAL

\* A decided game: FINAL with unequal scores.
IsDecided(i) == games[i].status = FINAL /\ games[i].home_score # games[i].away_score

HigherScoring(i) ==
    IF games[i].home_score > games[i].away_score
    THEN games[i].home_team_id ELSE games[i].away_team_id

WeekParticipants(w) ==
    {u \in DOMAIN users : \E i \in WeekGameIds(w) : IsDecided(i) /\ picks[<<u, i>>] # None}

WeekCorrect(u, w) ==
    Cardinality({i \in WeekGameIds(w) : IsDecided(i) /\ picks[<<u, i>>] = HigherScoring(i)})

MaxGroup(w) ==
    {u \in WeekParticipants(w) :
        \A v \in WeekParticipants(w) : WeekCorrect(v, w) <= WeekCorrect(u, w)}

MinGroup(w) ==
    {u \in WeekParticipants(w) :
        \A v \in WeekParticipants(w) : WeekCorrect(u, w) <= WeekCorrect(v, w)}

\* The call recorded in lunch was for a week that has a row and at least one game.
LunchCalled == lunch.week # None /\ weeks[lunch.week] # None /\ WeekGameIds(lunch.week) # {}

Guess(u) == tbs[<<u, lunch.week>>]

\* u holds a guess at or under the reported actual total.
AtOrUnder(u) == Guess(u) # None /\ Guess(u) <= lunch.ret.actual_total

\* a is strictly worse than b in the loser order.
WorseThan(a, b) ==
    \/ Guess(a) = None /\ Guess(b) # None
    \/ /\ Guess(a) # None /\ Guess(b) # None
       /\ \/ ~AtOrUnder(a) /\ AtOrUnder(b)
          \/ ~AtOrUnder(a) /\ ~AtOrUnder(b) /\ Guess(a) > Guess(b)
          \/ AtOrUnder(a) /\ AtOrUnder(b) /\ Guess(a) < Guess(b)

\* C1: while any game of the week is not Final the status is 'pending'; the
\* status is 'decided' only when every game is Final and some pick exists on a
\* decided game of the week.
C1_PendingUntilFinal ==
    LunchCalled =>
        /\ ~AllFinal(lunch.week) => lunch.ret.status = "pending"
        /\ lunch.ret.status = "decided" =>
              (AllFinal(lunch.week) /\ WeekParticipants(lunch.week) # {})

\* A lopsided week (one user ahead of another) with a game still to finish.
C1_Witness ==
    /\ LunchCalled /\ ~AllFinal(lunch.week)
    /\ \E u, v \in WeekParticipants(lunch.week) :
          WeekCorrect(u, lunch.week) > WeekCorrect(v, lunch.week)
    /\ lunch.ret.status = "pending"

\* C2: in a Final week with several users tied at the maximum and a tied user
\* guessing at or under the actual total, the only winner is the tied user
\* with the highest guess not exceeding the actual total.
C2_WinnerTiebreak ==
    (/\ LunchCalled /\ AllFinal(lunch.week)
     /\ Cardinality(MaxGroup(lunch.week)) > 1
     /\ \E u \in MaxGroup(lunch.week) : AtOrUnder(u))
    => \E u \in MaxGroup(lunch.week) :
          /\ AtOrUnder(u)
          /\ \A v \in MaxGroup(lunch.week) : AtOrUnder(v) => Guess(v) <= Guess(u)
          /\ lunch.ret.winner_uids = <<u>>

\* Two tied users, one under the actual total and one over it: the under-guess wins.
C2_Witness ==
    /\ LunchCalled /\ AllFinal(lunch.week)
    /\ \E u, v \in MaxGroup(lunch.week) :
          /\ AtOrUnder(u) /\ Guess(u) < lunch.ret.actual_total
          /\ Guess(v) # None /\ Guess(v) > lunch.ret.actual_total
          /\ lunch.ret.winner_uids = <<u>>

\* C3: in a Final week with several users tied at the maximum and no tied
\* user guessing at or under the actual total, the winners are the whole tied
\* group and the winner tiebreaker is reported as not applied.
C3_NoEligibleKeepsGroup ==
    (/\ LunchCalled /\ AllFinal(lunch.week)
     /\ Cardinality(MaxGroup(lunch.week)) > 1
     /\ \A u \in MaxGroup(lunch.week) : ~AtOrUnder(u))
    => /\ Range(lunch.ret.winner_uids) = MaxGroup(lunch.week)
       /\ Len(lunch.ret.winner_uids) = Cardinality(MaxGroup(lunch.week))
       /\ lunch.ret.tiebreaker_applied = FALSE

\* A tied group with one guess over the total and one guess missing stays whole.
C3_Witness ==
    /\ LunchCalled /\ AllFinal(lunch.week)
    /\ lunch.ret.actual_total # None
    /\ \E u, v \in MaxGroup(lunch.week) :
          /\ Guess(u) = None
          /\ Guess(v) # None /\ Guess(v) > lunch.ret.actual_total
    /\ \A u \in MaxGroup(lunch.week) : ~AtOrUnder(u)
    /\ Len(lunch.ret.winner_uids) > 1

C5_GroupsWithoutTiebreak ==
    LunchCalled =>
        /\ ~AllFinal(lunch.week) =>
              /\ Range(lunch.ret.winner_uids) = MaxGroup(lunch.week)
              /\ Cardinality(WeekParticipants(lunch.week)) # 1 =>
                    Range(lunch.ret.loser_uids) = MinGroup(lunch.week)
              /\ ~lunch.ret.tiebreaker_applied /\ ~lunch.ret.loser_tiebreaker_applied
        /\ Cardinality(WeekParticipants(lunch.week)) = 1 => lunch.ret.loser_uids = <<>>

\* An unfinished week with two users tied at the top who hold different guesses.
C5_Witness ==
    /\ LunchCalled /\ ~AllFinal(lunch.week)
    /\ Len(lunch.ret.winner_uids) > 1
    /\ Len(lunch.ret.loser_uids) > 1
    /\ \E u \in MaxGroup(lunch.week) : Guess(u) # None

\* A Final week with a single participant: a winner and no loser.
C5_WitnessSingle ==
    /\ LunchCalled /\ AllFinal(lunch.week)
    /\ Cardinality(WeekParticipants(lunch.week)) = 1
    /\ lunch.ret.status = "decided" /\ lunch.ret.loser_uids = <<>>

\* The games of week w that no game of the week starts after.
LatestGames(w) ==
    {i \in WeekGameIds(w) :
        \A j \in WeekGameIds(w) : games[j].start_time.t <= games[i].start_time.t}

TotalOf(i) == games[i].home_score + games[i].away_score

\* C6 as stated: none while a game is not Final; once every game is Final, the
\* total of the game with the latest start time.
C6_ActualTotalAsStated ==
    LunchCalled =>
        /\ ~AllFinal(lunch.week) => lunch.ret.actual_total = None
        /\ AllFinal(lunch.week) =>
              \E i \in LatestGames(lunch.week) : lunch.ret.actual_total = TotalOf(i)

\* C6 amended: none while a game is not Final or no pick exists on a decided
\* game; otherwise the total of a game with the latest start time.
C6_ActualTotal ==
    LunchCalled =>
        /\ (~AllFinal(lunch.week) \/ WeekParticipants(lunch.week) = {}) =>
              lunch.ret.actual_total = None
        /\ (AllFinal(lunch.week) /\ WeekParticipants(lunch.week) # {}) =>
              \E i \in LatestGames(lunch.week) : lunch.ret.actual_total = TotalOf(i)

\* A Final week whose first row starts last and differs in total from the other row.
C6_Witness ==
    /\ LunchCalled /\ AllFinal(lunch.week)
    /\ WeekParticipants(lunch.week) # {}
    /\ \E i \in LatestGames(lunch.week), j \in WeekGameIds(lunch.week) :
          /\ games[j].start_time.t < games[i].start_time.t
          /\ TotalOf(i) # TotalOf(j)
          /\ lunch.ret.actual_total = TotalOf(i)

(***************************************************************************)
(* Vocabulary of the claims about the season leaderboard.                  *)
(***************************************************************************)
\* The games of the season the recorded leaderboard was computed for.
BoardSeasonGames ==
    {i \in DOMAIN games :
        ActiveSeason(board.week) # None /\ games[i].season_id = ActiveSeason(board.week)}

SeasonPicks(u) ==
    Cardinality({i \in BoardSeasonGames : IsDecided(i) /\ picks[<<u, i>>] # None})

SeasonCorrect(u) ==
    Cardinality({i \in BoardSeasonGames : IsDecided(i) /\ picks[<<u, i>>] = HigherScoring(i)})

Listed == {board.ret[k].user_id : k \in DOMAIN board.ret}

\* C7: a listed user's picks are the user's picks on decided games of the
\* season, correct those naming the higher-scoring team; picks > 0, correct <=
\* picks, accuracy = correct / picks; users without such a pick are not listed.
C7_BoardCounts ==
    board.called =>
        /\ \A k \in DOMAIN board.ret :
              LET e == board.ret[k]
              IN  /\ e.picks = SeasonPicks(e.user_id)
                  /\ e.correct = SeasonCorrect(e.user_id)
                  /\ e.picks > 0
                  /\ e.correct <= e.picks
                  /\ e.pct[2] > 0
                  /\ e.pct[1] * e.picks = e.correct * e.pct[2]
        /\ \A u \in DOMAIN users : SeasonPicks(u) = 0 => u \notin Listed

\* A listed user with one counted pick and one pick that counts for nothing
\* (a tied, unfinished or other-season game), and an unlisted user whose only
\* pick counts for nothing.
C7_Witness ==
    /\ board.called
    /\ \E k \in DOMAIN board.ret, i \in DOMAIN games :
          /\ board.ret[k].picks = 1
          /\ picks[<<board.ret[k].user_id, i>>] # None
          /\ (i \notin BoardSeasonGames \/ ~IsDecided(i))
          /\ \E u \in DOMAIN users \ Listed : picks[<<u, i>>] # None

\* a sorts strictly before b: more correct, then higher accuracy, then the
\* case-insensitive name ascending.
SortsBefore(a, b) ==
    \/ a.correct > b.correct
    \/ a.correct = b.correct /\ a.correct * b.picks > b.correct * a.picks
    \/ a.correct = b.correct /\ a.correct * b.picks = b.correct * a.picks
       /\ StrLess(Lower(a.name), Lower(b.name))

\* The entry of user u, from the store.
EntryOf(u) == [name |-> users[u], correct |-> SeasonCorrect(u), picks |-> SeasonPicks(u)]

\* C8: no entry of the list sorts before an entry listed ahead of it, and the
\* list is the first 10 of the users with picks on decided games: min(10, all)
\* entries, none of the users left out sorting before a listed one.
C8_BoardOrder ==
    board.called =>
        /\ \A i, j \in DOMAIN board.ret : i < j => ~SortsBefore(board.ret[j], board.ret[i])
        /\ \A i, j \in DOMAIN board.ret : i # j => board.ret[i].user_id # board.ret[j].user_id
        /\ LET all == {u \in DOMAIN users : SeasonPicks(u) > 0}
           IN  /\ Listed \subseteq all
               /\ Len(board.ret) = IF Cardinality(all) < 10 THEN Cardinality(all) ELSE 10
               /\ \A u \in all \ Listed, k \in DOMAIN board.ret :
                     ~SortsBefore(EntryOf(u), board.ret[k])

\* More than 10 users, all tied on correct and accuracy: the list is the 10
\* first by case-insensitive name, with upper- and lower-case names mixed.
C8_Witness ==
    /\ board.called
    /\ Cardinality({u \in DOMAIN users : SeasonPicks(u) > 0}) > 10
    /\ Len(board.ret) = 10
    /\ \A k \in DOMAIN board.ret : board.ret[k].correct = 1
    /\ \E k \in DOMAIN board.ret :
          k + 2 <= Len(board.ret)
          /\ StrLess(board.ret[k + 1].name, board.ret[k].name)
          /\ StrLess(Lower(board.ret[k].name), Lower(board.ret[k + 1].name))
          /\ StrLess(Lower(board.ret[k + 1].name), Lower(board.ret[k + 2].name))

(***************************************************************************)
(* Claims about the importer and the pick forms.                           *)
(***************************************************************************)
\* C9: an import that repeats the previous import of the same week with the
\* same provider payload creates no Game row and returns zero upserts.
C9_ImportIdempotent ==
    (imp.week # None /\ imp.repeat) =>
        (imp.upserted = 0 /\ imp.rows_after <= imp.rows_before)

\* C10: every stored Pick names the home or the away team of its game.
C10_PickNamesParticipant ==
    \A k \in DOMAIN picks :
        picks[k] # None =>
            /\ k[2] \in DOMAIN games
            /\ picks[k] \in {games[k[2]].home_team_id, games[k[2]].away_team_id}

\* A step that serves a pick form request; save' is the record of it.
SaveStep == served'.saves = served.saves + 1

\* The week's lock as the data model defines it.
Locked(w) == weeks[w] # None /\ now >= weeks[w]

\* C11: a week is locked exactly when now >= first_kickoff_at.  An ordinary
\* save on a locked week is answered 'locked' and leaves every Pick and
\* TieBreaker as it was; on an unlocked week it is never answered 'locked';
\* an admin save is never answered 'locked'.
C11_LockedForUsersOnly ==
    [][(SaveStep /\ weeks[save'.week] # None) =>
          /\ (~save'.admin /\ Locked(save'.week)) =>
                (save'.status = "locked" /\ picks' = picks /\ tbs' = tbs)
          /\ (~save'.admin /\ ~Locked(save'.week)) => save'.status # "locked"
          /\ save'.admin => save'.status # "locked"]_vars

\* An ordinary save was refused on a locked week.
C11_Witness ==
    /\ save.week # None /\ ~save.admin /\ save.status = "locked"
    /\ Locked(save.week)

\* An admin save stored a guess in a week locked since its only import.
C11_WitnessAdmin ==
    /\ save.week # None /\ save.admin /\ save.status = "ok"
    /\ served.imports = 1 /\ weeks[save.week] = 0
    /\ tbs[<<save.user, save.week>>] # None

GuessesDistinct ==
    \A u1, u2 \in DOMAIN users, w \in Weeks :
        (u1 # u2 /\ tbs[<<u1, w>>] # None) => tbs[<<u1, w>>] # tbs[<<u2, w>>]

\* C12: no two users ever hold the same guess in the same week, and a save
\* answered 'tb_unique' leaves every Pick and TieBreaker as it was.
C12_DuplicateGuessRolledBack ==
    /\ []GuessesDistinct
    /\ [][(SaveStep /\ save'.status = "tb_unique") =>
             (picks' = picks /\ tbs' = tbs)]_vars

\* A save was answered 'tb_unique' while another user holds a guess in the week.
C12_Witness ==
    /\ save.week # None /\ save.status = "tb_unique"
    /\ \E u \in DOMAIN users : u # save.user /\ tbs[<<u, save.week>>] # None

(***************************************************************************)
(* Claims about the live summaries.                                        *)
(***************************************************************************)
\* A step that is a call of bulk_fetch_live_events; live' is the record of it.
CallStep == live'.calls = live.calls + 1

\* C13: a call without force for an id whose last outbound fetch succeeded
\* makes no outbound fetch and returns the cached state when it comes within
\* the positive TTL of the call that fetched, and fetches anew after that.
C13_PositiveCache ==
    [][CallStep =>
         \A e \in live'.ids :
            (~live'.force /\ live.log[e].kind = "ok") =>
                IF epoch - live.log[e].at <= CACHE_TTL_SECONDS
                THEN e \notin live'.fetched /\ live'.out[e] = live.log[e].lg
                ELSE e \in live'.fetched]_vars

\* A call reused an entry exactly CACHE_TTL_SECONDS old.
C13_Witness ==
    \E e \in live.ids :
        /\ ~live.force /\ e \notin live.fetched
        /\ live.log[e].kind = "ok" /\ live.out[e] = live.log[e].lg
        /\ epoch - live.log[e].at = CACHE_TTL_SECONDS

\* A call fetched anew one second after the TTL of a successful fetch.
C13_WitnessExpired ==
    \E e \in live.fetched :
        /\ ~live.force /\ live.log[e].prev = "ok" /\ live.log[e].kind = "error"
        /\ cache[e].at # None /\ live.log[e].at - cache[e].at = CACHE_TTL_SECONDS + 1

\* C14: an id whose last outbound fetch was answered not found is skipped by
\* a call without force (no outbound fetch, no entry in the result) while
\* the negative TTL has not elapsed since the answer; a call with force
\* fetches every requested id, and no cache entry of a requested id
\* survives it from before.
C14_NegativeCache ==
    [][CallStep =>
         \A e \in live'.ids :
            /\ (/\ ~live'.force /\ live.log[e].kind = "notfound"
                /\ epoch <= live.log[e].done + NEGATIVE_TTL_SECONDS) =>
                   (e \notin live'.fetched /\ live'.out[e] = Absent)
            /\ live'.force =>
                   /\ e \in live'.fetched
                   /\ cache'[e].at \in {None, epoch}
                   /\ negcache'[e] # None => negcache'[e] >= epoch + NEGATIVE_TTL_SECONDS]_vars

\* A call skipped an id exactly NEGATIVE_TTL_SECONDS after its not-found answer.
C14_Witness ==
    \E e \in live.ids :
        /\ ~live.force /\ e \notin live.fetched /\ live.out[e] = Absent
        /\ live.log[e].kind = "notfound"
        /\ epoch = live.log[e].done + NEGATIVE_TTL_SECONDS

\* A call with force fetched an id inside the negative TTL of a not-found answer.
C14_WitnessForce ==
    \E e \in live.fetched :
        /\ live.force /\ live.log[e].prev = "notfound"
        /\ epoch < NEGATIVE_TTL_SECONDS

\* C15: an outbound fetch that fails returns none; only a not-found answer
\* records a negative entry; after any other failure the id has no fresh
\* positive and no unexpired negative entry, a call without force leaves
\* its entries as they were, and the next call for the id fetches it again.
C15_FailuresNotCached ==
    [][CallStep =>
         \A e \in live'.ids :
            /\ live.log[e].kind = "error" => e \in live'.fetched
            /\ (e \in live'.fetched /\ live'.log[e].kind # "ok") => live'.out[e] = Absent
            /\ (e \in live'.fetched /\ live'.log[e].kind = "notfound") =>
                   negcache'[e] = live'.log[e].done + NEGATIVE_TTL_SECONDS
            /\ (e \in live'.fetched /\ live'.log[e].kind = "error") =>
                   /\ ~live'.force => (cache'[e] = cache[e] /\ negcache'[e] = negcache[e])
                   /\ cache'[e].at = None \/ epoch' - cache'[e].at > CACHE_TTL_SECONDS
                   /\ negcache'[e] = None \/ epoch' > negcache'[e]]_vars

\* A call fetched an id again right after a failure that was not a not-found.
C15_Witness ==
    \E e \in live.fetched :
        /\ live.log[e].prev = "error" /\ live.advances = 0 /\ ~live.force

(***************************************************************************)
(* Claims about what one import does to the schedule.                      *)
(***************************************************************************)
\* The Team a provider abbreviation names: by its abbreviation or by one of
\* its alternate abbreviations, whatever the case of the letters.
NamedBy(abbr) ==
    {t \in Teams : Upper(abbr) = Upper(TeamAbbr(t))
                   \/ \E alt \in TeamAlts(t) : Upper(abbr) = Upper(alt)}

IsAlternate(abbr) == \E t \in Teams : \E alt \in TeamAlts(t) : Upper(abbr) = Upper(alt)

Resolvable(pg) == NamedBy(pg.home_abbr) # {} /\ NamedBy(pg.away_abbr) # {}

\* The rows of week w that are the game pg: its teams and its start time.
RowsOf(rows, w, pg) ==
    {i \in DOMAIN rows :
        /\ rows[i].week_id = w
        /\ rows[i].home_team_id \in NamedBy(pg.home_abbr)
        /\ rows[i].away_team_id \in NamedBy(pg.away_abbr)
        /\ rows[i].start_time.t = pg.start_time.t}

LastOf(payload) == payload[Len(payload)]

\* C17: after an import, the last provider game of the payload, when one of
\* its abbreviations is a registered alternate and both name Teams, is a
\* Game of the week between the Teams so named.
C17_AlternateAbbreviation ==
    (imp.week # None /\ imp.payload # <<>>) =>
        LET pg == LastOf(imp.payload)
        IN  ((IsAlternate(pg.home_abbr) \/ IsAlternate(pg.away_abbr)) /\ Resolvable(pg)) =>
                RowsOf(games, imp.week, pg) # {}

\* An import created a Game of team 1 from a payload naming it "Z".
C17_Witness ==
    /\ imp.week # None /\ imp.payload # <<>>
    /\ IsAlternate(LastOf(imp.payload).home_abbr)
    /\ imp.rows_after = imp.rows_before + 1
    /\ \E i \in RowsOf(games, imp.week, LastOf(imp.payload)) : games[i].home_team_id = 1

\* A step that is a call of import_week_schedule; imp' is the record of it.
ImportStep == served'.imports = served.imports + 1

\* C18: an import of a single provider game that carries an id no Game of the
\* week has, while Games of the week without an id have its teams and
\* start time, creates no row, gives the id to one of them and returns 1.
C18_IdAttachedToExistingGame ==
    [][(ImportStep /\ Len(imp'.payload) = 1) =>
          LET pg == imp'.payload[1]
              w == imp'.week
              idless == {i \in RowsOf(games, w, pg) : games[i].provider_game_id = None}
          IN  (/\ pg.provider_game_id # None /\ Resolvable(pg)
               /\ \A i \in DOMAIN games :
                     games[i].week_id = w => games[i].provider_game_id # pg.provider_game_id
               /\ idless # {}) =>
                  /\ Len(games') = Len(games)
                  /\ \E i \in idless : games'[i].provider_game_id = pg.provider_game_id
                  /\ imp'.upserted = 1]_vars

\* The only Game of the table, imported without an id, now carries the id of
\* the single provider game of the last import.
C18_Witness ==
    /\ imp.week # None /\ Len(imp.payload) = 1 /\ served.imports = 2
    /\ imp.rows_before = 1 /\ imp.rows_after = 1 /\ imp.upserted = 1
    /\ LastOf(imp.payload).provider_game_id # None
    /\ games[1].provider_game_id = LastOf(imp.payload).provider_game_id
    /\ RowsOf(games, imp.week, LastOf(imp.payload)) = {1}

\* C19: after an import whose payload has a provider game with resolvable
\* teams, the week's first_kickoff_at is the earliest start time of the
\* payload's resolvable games.
C19_FirstKickoff ==
    (imp.week # None /\ \E k \in DOMAIN imp.payload : Resolvable(imp.payload[k])) =>
        LET ts == {imp.payload[k].start_time.t :
                      k \in {j \in DOMAIN imp.payload : Resolvable(imp.payload[j])}}
        IN  /\ weeks[imp.week] \in ts
            /\ \A t \in ts : weeks[imp.week] <= t

\* An import listed a later game before an earlier one.
C19_Witness ==
    /\ imp.week # None /\ Len(imp.payload) = 2
    /\ Resolvable(imp.payload[1]) /\ Resolvable(imp.payload[2])
    /\ imp.payload[1].start_time.t > imp.payload[2].start_time.t
    /\ weeks[imp.week] = imp.payload[2].start_time.t

(***************************************************************************)
(* Claims about the team import.                                           *)
(***************************************************************************)
\* A step that is a call of upsert_teams_from_provider; ups' is the record of it.
UpsertStep == ups'.calls = ups.calls + 1

\* The rows of the table that carry the abbreviation of provider team pt.
Carrying(rows, pt) == {i \in DOMAIN rows : Upper(rows[i].abbr) = Upper(pt.abbr)}

\* C16: inserted counts the provider teams whose abbreviation had no Team,
\* updated counts the existing Teams of which a field changed; a Team keeps
\* its alternate abbreviations when the provider supplies none and its logo
\* when the provider supplies none; a call that repeats the provider data of
\* the call before it returns (0, 0) and changes no row.
C16_UpsertTeamsCounts ==
    [][UpsertStep =>
         LET list == ups'.list
         IN  /\ ups'.inserted =
                    Cardinality({k \in DOMAIN list : Carrying(teams, list[k]) = {}})
             /\ ups'.updated =
                    Cardinality({i \in DOMAIN teams : teams'[i] # teams[i]})
             /\ \A k \in DOMAIN list : \A i \in Carrying(teams, list[k]) :
                    /\ ~list[k].alt_abbrs.given => teams'[i].alt_abbrs = teams[i].alt_abbrs
                    /\ list[k].logo_path = None => teams'[i].logo_path = teams[i].logo_path
             /\ ups'.repeat =>
                    (ups'.inserted = 0 /\ ups'.updated = 0 /\ teams' = teams)]_vars

\* A repeated list of two teams: one has a logo the provider did not supply.
C16_Witness ==
    /\ ups.repeat /\ Len(ups.list) = 2 /\ Len(teams) = 2
    /\ \E k \in DOMAIN ups.list : \E i \in Carrying(teams, ups.list[k]) :
          ups.list[k].logo_path = None /\ teams[i].logo_path # None

(***************************************************************************)
(* Claims about the reconciliation of Game rows.                           *)
(***************************************************************************)
\* A reconciliation fetched its summaries and applied them in this step.
ReconStep == recon'.runs = recon.runs + 1

\* The score row i held before the step; a row the step inserted starts at 0.
StoredHome(i) == IF i \in DOMAIN games THEN games[i].home_score ELSE 0
StoredAway(i) == IF i \in DOMAIN games THEN games[i].away_score ELSE 0

C20_WitnessAdmin ==
    /\ recon.kind = "admin"
    /\ \E i \in recon.selected :
          /\ recon.out[games[i].provider_game_id] = LiveGame("in", MaxScore, 0)
          /\ games[i].status = IN_PROGRESS
          /\ games[i].home_score = MaxScore
          /\ games[i].away_score = 0

\* A run of the periodic job happened in this step.
JobStep == ReconStep /\ recon'.kind = "job"

\* C21: a run of the periodic job changes only Games that had an external
\* id, a start time within [now - 6h, now + 10h] and a status other than
\* Final when the run selected them, and for which a live state was fetched;
\* every other Game is left unchanged, and no row is added or removed.
C21_JobFrame ==
    [][JobStep =>
        /\ DOMAIN games' = DOMAIN games
        /\ \A i \in DOMAIN games :
              games'[i] # games[i] =>
                  /\ games[i].provider_game_id # None
                  /\ now - 6 <= games[i].start_time.t
                  /\ games[i].start_time.t <= now + 10
                  /\ games[i].status # FINAL
                  /\ recon'.out[games[i].provider_game_id] # Absent]_vars

\* A run fetched a state for the second game and changed it (a scheduled
\* game has no points unless a run gave it some), while the first, final or
\* kicked off outside the window or without an id, kept its row.
C21_Witness ==
    /\ recon.kind = "job"
    /\ Len(games) = 2
    /\ recon.out[2] = LiveGame("", None, MaxScore)
    /\ games[2].status = SCHEDULED
    /\ games[2].away_score = MaxScore
    /\ \/ games[1].status = FINAL
       \/ games[1].start_time.t < now - 6
       \/ games[1].start_time.t > now + 10
       \/ games[1].provider_game_id = None

\* The summary pass of an admin reconciliation happened in this step.
AdminStep == ReconStep /\ recon'.kind = "admin"

\* The live source reports, for event e, a state earlier than 'post'.
ReportsEarlier(src, e) == src[e].kind = "ok" /\ src[e].lg.state # "post"

EarlierStatus(state) == IF state = "in" THEN IN_PROGRESS ELSE SCHEDULED

C22_WitnessJob ==
    /\ recon.kind = "job"
    /\ \E i \in DOMAIN games :
          /\ recon.before[i].status = FINAL
          /\ games[i].provider_game_id # None
          /\ recon.source[games[i].provider_game_id].kind = "ok"
          /\ recon.source[games[i].provider_game_id].lg.state = "in"
          /\ games[i].status = FINAL

\* The scoreboard fallback of an admin reconciliation happened in this step.
FallbackStep == recon.pc = "fallback" /\ recon'.pc = "idle"

\* Game row i was left unresolved by the summary lookup of the admin
\* reconciliation under way, and the scoreboard listing sb has a row for it.
Unresolved(i, sb) ==
    /\ games[i].week_id = recon.week
    /\ games[i].provider_game_id # None
    /\ \/ recon.out[games[i].provider_game_id] = Absent
       \/ recon.out[games[i].provider_game_id].state # "post"
    /\ sb[games[i].provider_game_id] # Absent

\* C23: the scoreboard fallback is applied only to Games whose summary lookup
\* returned nothing or a state other than 'post', and applies to them the
\* mapping of the summary path ('in' -> InProgress, 'post' -> Final, anything
\* else -> Scheduled; a present score replaces the stored one); every other
\* Game is not touched by the fallback.
C23_FallbackSameMapping ==
    [][FallbackStep =>
        \A i \in DOMAIN games :
            IF Unresolved(i, recon'.sb)
            THEN LET row == recon'.sb[games[i].provider_game_id]
                 IN  /\ games'[i].status =
                           (CASE row.state = "in" -> IN_PROGRESS
                              [] row.state = "post" -> FINAL
                              [] OTHER -> SCHEDULED)
                     /\ games'[i].home_score =
                           (IF row.home_score = None THEN games[i].home_score
                            ELSE row.home_score)
                     /\ games'[i].away_score =
                           (IF row.away_score = None THEN games[i].away_score
                            ELSE row.away_score)
            ELSE games'[i] = games[i]]_vars

\* An admin reconciliation has run to its end.
AdminDone == recon.kind = "admin" /\ recon.pc = "idle"

\* Rows of the reconciled week whose status or scores differ from what they
\* were when the reconciliation loaded them.
ActuallyChanged ==
    {i \in DOMAIN games :
        /\ games[i].week_id = recon.week
        /\ \/ games[i].status # recon.before[i].status
           \/ games[i].home_score # recon.before[i].home_score
           \/ games[i].away_score # recon.before[i].away_score}

\* C24: the 'updated' count an admin reconciliation reports equals the number
\* of Game rows of the week whose status or scores actually changed during
\* it, and never exceeds the number of the week's games with an external id.
C24_UpdatedCount ==
    AdminDone =>
        /\ recon.updated = Cardinality(ActuallyChanged)
        /\ recon.updated <=
              Cardinality({i \in DOMAIN games :
                              /\ games[i].week_id = recon.week
                              /\ games[i].provider_game_id # None})

(***************************************************************************)
(* Claims about the live provider's schedule.                              *)
(***************************************************************************)
\* The date string of an event: the competition's, else the event's.
DateOf(ev) ==
    IF ev.competitions[1].date.kind # "missing" THEN ev.competitions[1].date ELSE ev.date

HasSide(ev, side) ==
    \E k \in DOMAIN ev.competitions[1].competitors :
        /\ ev.competitions[1].competitors[k].homeAway = side
        /\ ev.competitions[1].competitors[k].abbr # <<>>

\* An event without a parse failure: it has a competition, a timestamp that
\* parses, and a home and an away team.
Parses(ev) ==
    /\ ev.competitions # <<>>
    /\ DateOf(ev).kind \in {"z", "offset", "naive"}
    /\ \A k \in DOMAIN ev.competitions[1].competitors :
          ev.competitions[1].competitors[k].object
    /\ HasSide(ev, "home")
    /\ HasSide(ev, "away")

\* C25: an event with a parse failure (no competition, unparseable timestamp,
\* missing home or away team) is absent from the schedule get_week_schedule
\* returns, and every other event of the response is returned, in order.
C25_BadEventsSkipped ==
    espn.called =>
        LET good == SelectSeq(espn.events, Parses)
        IN  /\ Len(espn.ret) = Len(good)
            /\ \A k \in DOMAIN good :
                  /\ espn.ret[k].provider_game_id = good[k].id
                  /\ espn.ret[k].start_time = Aware(DateOf(good[k]).t - DateOf(good[k]).off)

(***************************************************************************)
(* Claims about overlapping reconciliations.                               *)
(***************************************************************************)
\* A run of the periodic job commits in this step.
PollCommitStep == poll.pc = "fetched" /\ poll'.pc = "idle"

\* C26: a Game that the admin reconciliation has committed as Final, after a
\* periodic run selected it, is not set to a status other than Final by that
\* run's commit.
C26_FinalSurvivesOverlap ==
    [][PollCommitStep =>
        \A i \in poll.selected :
            (recon.kind = "admin" /\ games[i].status = FINAL)
                => games'[i].status = FINAL]_vars

(***************************************************************************)
(* Further claims about the weekly outcome and the pick forms.             *)
(***************************************************************************)
\* C27: whenever _weekly_lunch returns 'decided' for a week with more than
\* one participant, no user is both among the winners and among the losers.
C27_WinnersLosersDisjoint ==
    (/\ LunchCalled
     /\ lunch.ret.status = "decided"
     /\ Cardinality(WeekParticipants(lunch.week)) > 1)
    => Range(lunch.ret.winner_uids) \cap Range(lunch.ret.loser_uids) = {}

\* C28: once a week is locked (now >= first_kickoff_at) it stays locked: no
\* later import of the week moves first_kickoff_at past the current time (so
\* that no ordinary-user save changes its picks or tiebreakers any more).
C28_LockedStaysLocked ==
    [][\A w \in Weeks :
          (weeks[w] # None /\ now >= weeks[w])
              => (weeks'[w] # None /\ now' >= weeks'[w])]_vars

\* The tiebreaker text is not empty and is no integer, or a negative one.
TbInvalid(tb) == tb.kind = "junk" \/ (tb.kind = "int" /\ tb.val < 0)

\* C30: a picks_save or admin_picks_save request that reads a tiebreaker field
\* which is non-empty but negative or not an integer is answered 'tb_invalid'
\* and persists nothing: no Pick and no TieBreaker is created or changed, even
\* for valid picks of the same form.
C30_InvalidTiebreakerPersistsNothing ==
    [][(SaveStep /\ TbInvalid(save'.tb)) =>
          (save'.status = "tb_invalid" /\ picks' = picks /\ tbs' = tbs)]_vars

\* An ordinary user's form with a valid pick and a bad tiebreaker was
\* rejected, and the user has no pick on any game.
C30_Witness ==
    /\ save.status = "tb_invalid" /\ ~save.admin
    /\ save.staged > 0
    /\ \A i \in GameIds : picks[<<save.user, i>>] = None

\* The same for the admin form, with a negative integer.
C30_WitnessAdmin ==
    /\ save.status = "tb_invalid" /\ save.admin
    /\ save.tb.kind = "int"
    /\ save.staged > 0
    /\ \A i \in GameIds : picks[<<save.user, i>>] = None

\* C29 (periodic job, liveness): a game with a provider id that is not final
\* when the live source settles on 'post' with scores (h, a), and whose
\* kickoff stays in the job's window, eventually is Final with the scores
\* (h, a) and stays so under every later run of the job.
SettledOn(i) == feed.answers[games[i].provider_game_id].lg

FinalAsSettled(i) ==
    /\ games[i].status = FINAL
    /\ games[i].home_score = SettledOn(i).home_score
    /\ games[i].away_score = SettledOn(i).away_score

C29_SettledGameBecomesFinal ==
    [](  (feed.settled /\ 1 \in SelectedByJob(games, now))
         => <>[](feed.settled /\ FinalAsSettled(1)))

\* A run of the job under its trigger, after the source settled, took a game
\* that was not final to Final with the settled scores.
C29_Witness ==
    /\ feed.settled
    /\ recon.kind = "job"
    /\ recon.selected = {1}
    /\ recon.before[1].status # FINAL
    /\ recon.source = feed.answers
    /\ FinalAsSettled(1)
====
